---- MODULE Spec2Model ----
(***************************************************************************)
(* A model of the STUN probe scripts of relay-client:                      *)
(*   src/test-stun-server.py  create_stun_request, parse_stun_response,    *)
(*                            test_stun_server, test_multiple_requests,    *)
(*                            main                                         *)
(*   src/test-simple-stun.py  test_simple_stun                             *)
(*                                                                         *)
(* A byte is a number in 0..255 and a datagram is a sequence of bytes.     *)
(* Python offsets are 0-based; Slice(s, a, b) is the Python slice s[a:b].  *)
(*                                                                         *)
(* and of the benchmark phases of                                          *)
(*   src/test-speed.py        SpeedTest.test_latency, test_throughput,     *)
(*                            test_concurrent_throughput, test_stress      *)
(*   src/test-relay-speed.py  RelaySpeedTest.test_latency,                 *)
(*                            test_single_throughput,                      *)
(*                            test_concurrent_throughput                   *)
(*   src/test-simple-relay.py test_relay_performance,                      *)
(*                            test_relay_concurrent                        *)
(*                                                                         *)
(* of the run_all_tests drivers of test-speed.py and test-relay-speed.py,  *)
(* and of the clients of                                                   *)
(*   src/test-relay-communication.py  RelayClient.connect, listen          *)
(*   src/test-p2p-connection.py       P2PClient.listen, test_latency       *)
(*                                                                         *)
(* The specifications share the variables:                                 *)
(*   SpecCodec  the message codec as a pure function: Init draws a         *)
(*              datagram, the one action applies parse_stun_response;      *)
(*   Spec       one run of a probe script: main of test-stun-server.py or  *)
(*              test_simple_stun, with every behaviour of the network;     *)
(*   SpecBench  one call of a benchmark phase, with its parameters drawn   *)
(*              by Init, every behaviour of the network and a clock;       *)
(*   SpecBenchLive  SpecBench with the clock advancing and every thread    *)
(*              scheduled;                                                 *)
(*   SpecStats  the summary of test_single_throughput as a pure function   *)
(*              of the outcomes of its iterations;                         *)
(*   SpecEcho   the exchanges of one loop on one socket, with the          *)
(*              datagrams queued in the socket in their order of arrival;  *)
(*   SpecSuite  run_all_tests: the phases in order, each with every        *)
(*              outcome its code can produce;                              *)
(*   SpecConnect  the connects of test_relay_communication, with every     *)
(*              reply of the relay;                                        *)
(*   SpecListen  one listener thread and the datagrams that reach its      *)
(*              socket; SpecListenLive schedules the thread;               *)
(*   SpecPing   test_latency of test-p2p-connection.py: the pings, their   *)
(*              delivery or loss, the polling of the list of client B;     *)
(*   SpecParse  parse_stun_response, one step per pass of its attribute    *)
(*              loop; SpecParseLive runs the call to its return.           *)
(***************************************************************************)
EXTENDS Integers, Sequences, FiniteSets, TLC

VARIABLES
    script,          \* which script runs: "codec" (SpecCodec), "stun_server", "simple_stun", ...
    pc,              \* position of the running script
    wire,            \* SpecCodec: how the datagram under test was built (ghost)
    response,        \* the datagram handed to the decoder / returned by recvfrom
    parsed,          \* the pair (result, error) returned by parse_stun_response
    sock,            \* the local `sock`: "unbound", "open", "closed"
    transaction_id,  \* the local `transaction_id` of the request of the current call
    stun_request,    \* the local `stun_request` of the current call
    mapped,          \* the locals family, port, ip decoded from MAPPED-ADDRESS
    ret,             \* what the current call of the probe function returned:
                     \* "none", "True", "False", or "raised" (an exception left it)
    report,          \* the verdict line the current call printed last
    phase,           \* main: "single" (line 155), "multi" (line 159), "exit"
    i,               \* test_multiple_requests: the loop index
    success_count,   \* test_multiple_requests: success_count
    outstanding,     \* ghost: probes whose request is sent and whose reply or
                     \* timeout is not yet observed, as records [n, tid]
    probes_sent,     \* ghost: number of requests sent so far
    prev_tids,       \* ghost: transaction ids of the probes already completed
    bench,           \* SpecBench: the phase that runs, "none" otherwise
    num_clients,     \* parameter num_clients of the concurrent phase
    duration,        \* parameter duration of a duration-bounded phase, in ticks
    iterations,      \* parameter iterations (or len(data_sizes)) of a counted phase
    wk,              \* per client id: the locals of client_thread, or of the
                     \* phase's own loop (client 0) in a single-threaded phase
    results,         \* the list `results` the client threads append to
    main_pc,         \* position of the thread that called the phase
    main_i,          \* its loop index in the start loop and in the join loop
    bench_ret,       \* what the phase returned: "none", "True", "False", "raised"
    exc,             \* the exception that ended the phase, "none" if none
    published,       \* the entry the phase stored in self.results, if any
    exchanges,       \* SpecStats: the outcomes of the exchanges of a sweep
    data_size,       \* SpecStats: parameter data_size, in bytes
    summary,         \* SpecStats: what the sweep computed from them
    inflight,        \* SpecEcho: echoes on their way back to the socket
    rcvbuf,          \* SpecEcho: datagrams queued in the socket, oldest first
    suite,           \* SpecSuite: the locals of run_all_tests
    relay_client,    \* SpecConnect: a RelayClient and the position of its connect
    listener,        \* SpecListen: a client, its socket and its listen thread
    latency_test,    \* SpecPing: the locals of test_latency of
                     \* test-p2p-connection.py and its two clients
    parser,          \* SpecParse: the locals of parse_stun_response
    ex               \* SpecEcho: the loop: its position, the messages sent,
                     \* the exchanges counted as received; and, kept for
                     \* stating properties, the exchanges whose timeout has
                     \* not run out since their sendto (window) and those
                     \* whose echo reached the socket before it did (ontime)

\* the variables of SpecSuite, SpecConnect, SpecListen, SpecPing, SpecParse
lateVars == <<suite, relay_client, listener, latency_test, parser>>

\* the variables of SpecStats and SpecEcho, and those
sideVars == <<exchanges, data_size, summary, inflight, rcvbuf, ex, lateVars>>

benchVars == <<bench, num_clients, duration, iterations, wk, results, main_pc,
               main_i, bench_ret, exc, published, sideVars>>

vars == <<script, pc, wire, response, parsed, sock, transaction_id, stun_request,
          mapped, ret, report, phase, i, success_count, outstanding, probes_sent,
          prev_tids, bench, num_clients, duration, iterations, wk, results,
          main_pc, main_i, bench_ret, exc, published, exchanges, data_size,
          summary, inflight, rcvbuf, ex, suite, relay_client, listener,
          latency_test, parser>>

probeVars == <<sock, transaction_id, stun_request, mapped, ret, report, phase, i,
               success_count, outstanding, probes_sent, prev_tids>>

-----------------------------------------------------------------------------
(* Bounds of the model *)

\* Longest attribute list of a datagram drawn for the codec.
MaxAttrs == 2

-----------------------------------------------------------------------------
(* Program constants *)

BindingRequest == 1            \* msg_type = 0x0001
BindingSuccess == 257          \* 0x0101
MinResponseLen == 20           \* if len(data) < 20
AttrStart == 20                \* offset = 20
MappedAddressType == 1         \* attr['type'] == 0x0001
MappedMinLen == 8              \* len(attr['value']) >= 8
FamilyIPv4 == 1                \* family == 0x01
TidLen == 12                   \* range(12)

-----------------------------------------------------------------------------
(* Bytes, slices, struct.pack / struct.unpack *)

Min(a, b) == IF a < b THEN a ELSE b

\* Python s[a:b] for 0 <= a <= b: clipped to the sequence, never an error.
Slice(s, a, b) == SubSeq(s, a + 1, Min(b, Len(s)))

\* struct.pack('>H', n): two bytes, big-endian.
Pack16(n) == <<(n \div 256) % 256, n % 256>>

\* struct.unpack('>H', b)[0] of exactly two bytes.
Unpack16(b) == b[1] * 256 + b[2]

\* bytes.hex(): two hexadecimal digits per byte, high digit first; a digit is
\* modelled by its value 0..15.
Hex(b) == [k \in 1..(2 * Len(b)) |->
              IF k % 2 = 1 THEN b[(k + 1) \div 2] \div 16 ELSE b[k \div 2] % 16]

-----------------------------------------------------------------------------
(* create_stun_request: the encoder *)

\* stun_msg = struct.pack('>HH', msg_type, msg_length) + transaction_id
PackHeader(msg_type, msg_length, tid) == Pack16(msg_type) \o Pack16(msg_length) \o tid

\* create_stun_request for the transaction id the random generator drew:
\* the pair (stun_msg, transaction_id).
create_stun_request(tid) ==
    [stun_msg |-> PackHeader(BindingRequest, 0, tid), transaction_id |-> tid]

-----------------------------------------------------------------------------
(* parse_stun_response: the decoder *)

NoResult == [none |-> TRUE]
NoError == "None"
TooShortError == "Response too short"

\* if len(data) < 20
TooShort_le(data) == Len(data) <= MinResponseLen
TooShort(data) == Len(data) < MinResponseLen

\* if msg_length > 0 and len(data) >= 20 + msg_length
AttrsPresent(data, msg_length) ==
    msg_length > 0 /\ Len(data) >= AttrStart + msg_length

\* What one pass of the while loop appends.
ReadAttr(data, offset) ==
    LET attr_type == Unpack16(Slice(data, offset, offset + 2))
        attr_length == Unpack16(Slice(data, offset + 2, offset + 4))
    IN <<[type |-> attr_type,
          length |-> attr_length,
          value |-> Slice(data, offset + 4, offset + 4 + attr_length)]>>

\* The while loop of lines 44-55, from `offset` with `attributes` read so far.
RECURSIVE ParseAttrs(_, _, _, _)
ParseAttrs(data, offset, msg_length, attributes) ==
    IF offset < AttrStart + msg_length
    THEN IF offset + 4 > Len(data)
         THEN attributes
         ELSE LET read == ReadAttr(data, offset)
              IN ParseAttrs(data, offset + 4 + read[1].length, msg_length,
                            attributes \o read)
    ELSE attributes

parse_stun_response(data) ==
    IF TooShort(data)
    THEN [result |-> NoResult, error |-> TooShortError]
    ELSE LET msg_type == Unpack16(Slice(data, 0, 2))
             msg_length == Unpack16(Slice(data, 2, 4))
             tid == Slice(data, 4, 16)
             has == AttrsPresent(data, msg_length)
         IN [result |-> [msg_type |-> msg_type,
                         msg_length |-> msg_length,
                         transaction_id |-> Hex(tid),
                         has_attributes |-> has,
                         attributes |-> IF has
                                        THEN ParseAttrs(data, AttrStart, msg_length, <<>>)
                                        ELSE <<>>],
             error |-> NoError]

-----------------------------------------------------------------------------
(* The wire format of section 6 of the specification, for messages that carry
   attributes (the scripts only ever encode the attribute-less request) *)

\* type(2B) + length(2B) + value, the record the decoder's loop reads back.
EncodeAttr(a) == Pack16(a.type) \o Pack16(a.length) \o a.value

RECURSIVE EncodeAttrs(_)
EncodeAttrs(attrs) ==
    IF attrs = <<>> THEN <<>>
    ELSE EncodeAttr(Head(attrs)) \o EncodeAttrs(Tail(attrs))

\* An attribute whose length field is the length of its value.
Attr(type, value) == [type |-> type, length |-> Len(value), value |-> value]

\* Header (type, byte length of the attribute section), the 12-byte id, the
\* attributes: create_stun_request's layout, extended by the attribute section.
encode_message(msg_type, tid, attrs) ==
    PackHeader(msg_type, Len(EncodeAttrs(attrs)), tid) \o EncodeAttrs(attrs)

-----------------------------------------------------------------------------
(* The datagrams the decoder is tried on *)

\* bytes([random.randint(0, 255) for _ in range(12)]): two of the 256^12 ids.
TidA == [k \in 1..TidLen |-> 16 + k]
TidB == [k \in 1..TidLen |-> 160 + k]
Tids == {TidA, TidB}

\* MAPPED-ADDRESS values: reserved, family, port (2 bytes), address.
MappedV4 == <<0, 1, 18, 52, 10, 0, 0, 7>>
AttrValues == {<<>>, <<222, 173, 190, 239>>, MappedV4}
\* MAPPED-ADDRESS and 0x0020, a type the scripts do not name.
AttrTypes == {MappedAddressType, 32}
AttrPool == {Attr(t, v) : t \in AttrTypes, v \in AttrValues}

RECURSIVE SeqsUpTo(_, _)
SeqsUpTo(S, n) ==
    IF n = 0 THEN {<<>>}
    ELSE LET shorter == SeqsUpTo(S, n - 1)
         IN shorter \cup {Append(q, x) : q \in {r \in shorter : Len(r) = n - 1}, x \in S}

\* The last attribute's length field raised by `lie` bytes above its value.
Overstate(attrs, lie) ==
    IF attrs = <<>> \/ lie = 0 THEN attrs
    ELSE [attrs EXCEPT ![Len(attrs)].length = @ + lie]

\* The datagram of a construction w: a header declaring `extra` bytes more
\* than the attribute section holds, the id, `pad` bytes between the id and
\* the attributes (a peer with a 20-byte header), the attributes, the last
\* one overstating its length by `lie`; cut to its first `cut` bytes.
WireFull(w) ==
    LET m == encode_message(w.msg_type, w.tid, Overstate(w.attrs, w.lie))
        declared == Unpack16(Slice(m, 2, 4)) + w.extra
    IN Slice(m, 0, 2) \o Pack16(declared) \o Slice(m, 4, 16)
       \o [k \in 1..w.pad |-> 0] \o Slice(m, 16, Len(m))

\* A construction without its cut.
WireShapes ==
    {[msg_type |-> t, tid |-> d, pad |-> p, attrs |-> a, lie |-> l, extra |-> e] :
        t \in {BindingRequest, BindingSuccess}, d \in Tids, p \in {0, 4},
        a \in SeqsUpTo(AttrPool, MaxAttrs), l \in {0, 4}, e \in {0, 4}}

WithCut(shape, c) ==
    [msg_type |-> shape.msg_type, tid |-> shape.tid, pad |-> shape.pad,
     attrs |-> shape.attrs, lie |-> shape.lie, extra |-> shape.extra, cut |-> c]

\* w is a message of the wire format: nothing between id and attributes, every
\* length field true.
WellFormed(w) == w.pad = 0 /\ w.lie = 0 /\ w.extra = 0
\* ... and the datagram holds all of it.
Complete(w) == w.cut = Len(WireFull(w))

NoWire == [none |-> TRUE]
Unparsed == [result |-> NoResult, error |-> "unparsed"]
NoMapped == [none |-> TRUE]

-----------------------------------------------------------------------------
(* The benchmark phases: bounds, the locals of a client, the idle state *)

\* Bounds of the benchmark model.  Time is counted in ticks of the clock.
MaxClients == 2       \* largest num_clients
MaxDuration == 1      \* largest duration, in ticks
SockTimeout == 1      \* sock.settimeout(...), in ticks
MaxExchanges == 5     \* most messages test_stress sends, most errors it counts
MaxClientExchanges == 1  \* most messages one client thread sends
MaxIterations == 2    \* largest iterations / len(data_sizes)

ClientIds == 0..(MaxClients - 1)

\* The locals of client_thread (test-speed.py 139-185, test-relay-speed.py
\* 116-176) and of the loops of test_latency, test_throughput and test_stress.
\*   elapsed            time.time() - start_time in ticks, followed
\*                      while the loop runs
\*   waited             ticks the pending recvfrom has been blocked
\*   iter               iterations a counted loop has entered
\*   messages_received  also stands for len(latencies) in test_latency and for
\*                      the number of sizes recorded with success in
\*                      test_throughput
\* and two records the code does not keep, for stating properties:
\*   echoes             datagrams recvfrom has returned that equalled the
\*                      message just sent
\*   used               the sockets the client has called a method of, each
\*                      named by the client whose socket.socket() made it
NewWorker ==
    [pc |-> "unstarted", sock |-> "unbound", elapsed |-> 0, waited |-> 0,
     iter |-> 0, messages_sent |-> 0, messages_received |-> 0, errors |-> 0,
     echoes |-> 0, used |-> {}]

NoPublished == [none |-> TRUE]

NoSummary == [none |-> TRUE]

\* The locals of the loop of SpecEcho before it starts.
NoExchange ==
    [pc |-> "idle", sent |-> 0, counted |-> {}, window |-> {}, ontime |-> {}]

NotRunning == [pc |-> "idle"]

LateIdle ==
    /\ suite = NotRunning
    /\ relay_client = NotRunning
    /\ listener = NotRunning
    /\ latency_test = NotRunning
    /\ parser = NotRunning

SideIdle ==
    /\ LateIdle
    /\ exchanges = <<>>
    /\ data_size = 0
    /\ summary = NoSummary
    /\ inflight = {}
    /\ rcvbuf = <<>>
    /\ ex = NoExchange

BenchIdle ==
    /\ bench = "none"
    /\ num_clients = 0
    /\ duration = 0
    /\ iterations = 0
    /\ wk = [c \in ClientIds |-> NewWorker]
    /\ results = <<>>
    /\ main_pc = "idle"
    /\ main_i = 0
    /\ bench_ret = "none"
    /\ exc = "none"
    /\ published = NoPublished
    /\ SideIdle

-----------------------------------------------------------------------------
(* SpecCodec: parse_stun_response applied to one datagram *)

ProbeIdle ==
    /\ sock = "unbound"
    /\ transaction_id = <<>>
    /\ stun_request = <<>>
    /\ mapped = NoMapped
    /\ ret = "none"
    /\ report = "none"
    /\ phase = "none"
    /\ i = 0
    /\ success_count = 0
    /\ outstanding = {}
    /\ probes_sent = 0
    /\ prev_tids = {}

InitCodec ==
    /\ script = "codec"
    /\ pc = "input"
    /\ \E shape \in WireShapes :
          \E c \in 0..Len(WireFull(shape)) :
             /\ wire = WithCut(shape, c)
             /\ response = Slice(WireFull(shape), 0, c)
    /\ parsed = Unparsed
    /\ ProbeIdle
    /\ BenchIdle

Decode ==
    /\ script = "codec"
    /\ pc = "input"
    /\ parsed' = parse_stun_response(response)
    /\ pc' = "decoded"
    /\ UNCHANGED benchVars
    /\ UNCHANGED <<script, wire, response>>
    /\ UNCHANGED probeVars

NextCodec == Decode

SpecCodec == InitCodec /\ [][NextCodec]_vars

Decoded == script = "codec" /\ pc = "decoded"

-----------------------------------------------------------------------------
(* test_stun_server and test_simple_stun: what a call does with a reply *)

\* socket.inet_ntoa(b): the dotted quad of exactly four bytes, its four
\* decimal fields in order; OSError for any other length.
inet_ntoa(b) ==
    IF Len(b) = 4
    THEN [raised |-> FALSE, dotted |-> <<b[1], b[2], b[3], b[4]>>]
    ELSE [raised |-> TRUE, dotted |-> <<>>]

\* Lines 110-116: the locals family, port and ip read from a MAPPED-ADDRESS
\* value, and whether inet_ntoa raised.
decode_mapped_address(value) ==
    IF Len(value) >= MappedMinLen
    THEN LET family == Unpack16(Slice(value, 2, 4))
             port == Unpack16(Slice(value, 4, 6))
             ip == IF family = FamilyIPv4
                   THEN inet_ntoa(Slice(value, 6, 10))
                   ELSE [raised |-> FALSE, dotted |-> <<>>]
         IN [value |-> value, family |-> family, port |-> port,
             ip |-> ip.dotted, raised |-> ip.raised]
    ELSE NoMapped

\* Lines 106-117: the first attribute of type 0x0001 (the loop breaks after
\* it); 0 when there is none.
FirstMappedIndex(attributes) ==
    LET hits == {k \in 1..Len(attributes) : attributes[k].type = MappedAddressType}
    IN IF hits = {} THEN 0 ELSE CHOOSE k \in hits : \A h \in hits : k <= h

\* Lines 90-121 of test_stun_server, from the reply to the return value; an
\* exception raised on the way is caught by `except Exception` (line 126).
classify_response(data) ==
    LET pr == parse_stun_response(data)
    IN IF pr.error # NoError
       THEN [parsed |-> pr, mapped |-> NoMapped, ret |-> "False",
             report |-> "parse_failed"]
       ELSE IF pr.result.msg_type = BindingSuccess
       THEN LET k == IF pr.result.has_attributes
                     THEN FirstMappedIndex(pr.result.attributes) ELSE 0
                m == IF k > 0
                     THEN decode_mapped_address(pr.result.attributes[k].value)
                     ELSE NoMapped
            IN IF m # NoMapped /\ m.raised
               THEN [parsed |-> pr, mapped |-> m, ret |-> "False", report |-> "error"]
               ELSE [parsed |-> pr, mapped |-> m, ret |-> "True", report |-> "success"]
       ELSE [parsed |-> pr, mapped |-> NoMapped, ret |-> "False",
             report |-> "unexpected_type"]

\* Lines 41-53 of test_simple_stun.
classify_simple(data) ==
    IF Len(data) >= MinResponseLen
    THEN IF Unpack16(Slice(data, 0, 2)) = BindingSuccess
         THEN [ret |-> "True", report |-> "success"]
         ELSE [ret |-> "False", report |-> "unexpected_type"]
    ELSE [ret |-> "False", report |-> "too_short"]

\* Line 26 of test_simple_stun: the request built inline.
simple_stun_request(tid) ==
    [stun_msg |-> PackHeader(BindingRequest, 0, tid), transaction_id |-> tid]

\* test_multiple_requests(host, port, 3)
RequestCount == 3

-----------------------------------------------------------------------------
(* The datagrams recvfrom may return: anything a peer sends. 273 is 0x0111,
   a message type other than 0x0101. *)

MappedPort1 == <<0, 1, 0, 1, 192, 168, 0, 1>>
MappedFamily5 == <<0, 5, 0, 5, 10, 0, 0, 7>>
MappedShifted == <<0, 0, 0, 1, 18, 52, 10, 0, 0, 7, 0, 0>>

ReplyAttrLists ==
    {<<>>,
     <<Attr(MappedAddressType, MappedV4)>>,
     <<Attr(MappedAddressType, MappedPort1)>>,
     <<Attr(MappedAddressType, MappedFamily5)>>,
     <<Attr(32, <<222, 173, 190, 239>>),
       Attr(MappedAddressType, MappedShifted)>>,
     <<Attr(MappedAddressType, <<0, 1, 18, 52>>)>>}

Replies ==
    {WireFull([msg_type |-> t, tid |-> d, pad |-> p, attrs |-> a, lie |-> 0,
               extra |-> 0]) :
        t \in {BindingSuccess, 273}, d \in Tids, p \in {0, 4},
        a \in ReplyAttrLists}
    \cup {<<1, 1, 0, 0>>}

-----------------------------------------------------------------------------
(* Spec: one run of test-stun-server.py (main) or of test-simple-stun.py *)

Init ==
    /\ script \in {"stun_server", "simple_stun"}
    /\ pc = "call"
    /\ wire = NoWire
    /\ response = <<>>
    /\ parsed = Unparsed
    /\ sock = "unbound"
    /\ transaction_id = <<>>
    /\ stun_request = <<>>
    /\ mapped = NoMapped
    /\ ret = "none"
    /\ report = "none"
    /\ phase = IF script = "stun_server" THEN "single" ELSE "simple"
    /\ i = 0
    /\ success_count = 0
    /\ outstanding = {}
    /\ probes_sent = 0
    /\ prev_tids = {}
    /\ BenchIdle

Running == script \in {"stun_server", "simple_stun"}

\* The probe that is waiting in recvfrom.
CurrentProbe == [n |-> probes_sent, tid |-> transaction_id]

\* recvfrom blocks the caller until a datagram, the timeout or an error: the
\* probe is then no longer outstanding.
AwaitReply_nonblocking(out, probe) == out
AwaitReply(out, probe) == out \ {probe}

\* sock = socket.socket(...); sock.settimeout(...)
CreateSocket ==
    /\ Running /\ pc = "call"
    /\ sock' = "open"
    /\ pc' = "send"
    /\ UNCHANGED benchVars
    /\ UNCHANGED <<script, wire, response, parsed, transaction_id, stun_request,
                   mapped, ret, report, phase, i, success_count, outstanding,
                   probes_sent, prev_tids>>

\* socket.socket raises: `except Exception` prints the error and returns
\* False, then `finally: sock.close()` reads the unbound local `sock` and its
\* UnboundLocalError leaves the function; no caller catches it.
SocketFails ==
    /\ Running /\ pc = "call"
    /\ ret' = "raised"
    /\ report' = "traceback"
    /\ pc' = "crashed"
    /\ UNCHANGED benchVars
    /\ UNCHANGED <<script, wire, response, parsed, sock, transaction_id,
                   stun_request, mapped, phase, i, success_count, outstanding,
                   probes_sent, prev_tids>>

\* The request is built with a random id and sendto succeeds.
SendRequest ==
    /\ Running /\ pc = "send"
    /\ \E tid \in Tids :
          LET req == IF script = "stun_server"
                     THEN create_stun_request(tid) ELSE simple_stun_request(tid)
          IN /\ stun_request' = req.stun_msg
             /\ transaction_id' = req.transaction_id
             /\ outstanding' = outstanding \cup {[n |-> probes_sent + 1, tid |-> tid]}
    /\ probes_sent' = probes_sent + 1
    /\ pc' = "recv"
    /\ UNCHANGED benchVars
    /\ UNCHANGED <<script, wire, response, parsed, sock, mapped, ret, report,
                   phase, i, success_count, prev_tids>>

\* sendto raises (name resolution, unreachable network): `except Exception`
\* returns False and `finally` closes the socket.
SendFails ==
    /\ Running /\ pc = "send"
    /\ \E tid \in Tids :
          LET req == IF script = "stun_server"
                     THEN create_stun_request(tid) ELSE simple_stun_request(tid)
          IN /\ stun_request' = req.stun_msg
             /\ transaction_id' = req.transaction_id
    /\ ret' = "False"
    /\ report' = "error"
    /\ sock' = "closed"
    /\ pc' = "returned"
    /\ UNCHANGED benchVars
    /\ UNCHANGED <<script, wire, response, parsed, mapped, phase, i,
                   success_count, outstanding, probes_sent, prev_tids>>

\* response, addr = sock.recvfrom(1024) returns a datagram.
RecvReply ==
    /\ Running /\ pc = "recv"
    /\ \E r \in Replies : response' = r
    /\ outstanding' = AwaitReply(outstanding, CurrentProbe)
    /\ pc' = "got"
    /\ UNCHANGED benchVars
    /\ UNCHANGED <<script, wire, parsed, sock, transaction_id, stun_request,
                   mapped, ret, report, phase, i, success_count, probes_sent,
                   prev_tids>>

\* recvfrom raises socket.timeout: return False, `finally` closes the socket.
RecvTimeout ==
    /\ Running /\ pc = "recv"
    /\ outstanding' = AwaitReply(outstanding, CurrentProbe)
    /\ ret' = "False"
    /\ report' = "timeout"
    /\ sock' = "closed"
    /\ pc' = "returned"
    /\ UNCHANGED benchVars
    /\ UNCHANGED <<script, wire, response, parsed, transaction_id, stun_request,
                   mapped, phase, i, success_count, probes_sent, prev_tids>>

\* recvfrom raises another OSError (an ICMP port-unreachable, for one).
RecvError ==
    /\ Running /\ pc = "recv"
    /\ outstanding' = AwaitReply(outstanding, CurrentProbe)
    /\ ret' = "False"
    /\ report' = "error"
    /\ sock' = "closed"
    /\ pc' = "returned"
    /\ UNCHANGED benchVars
    /\ UNCHANGED <<script, wire, response, parsed, transaction_id, stun_request,
                   mapped, phase, i, success_count, probes_sent, prev_tids>>

\* test_stun_server, from parse_stun_response to the return and `finally`.
ClassifyReply ==
    /\ script = "stun_server" /\ pc = "got"
    /\ LET c == classify_response(response)
       IN /\ parsed' = c.parsed
          /\ mapped' = c.mapped
          /\ ret' = c.ret
          /\ report' = c.report
    /\ sock' = "closed"
    /\ pc' = "returned"
    /\ UNCHANGED benchVars
    /\ UNCHANGED <<script, wire, response, transaction_id, stun_request, phase, i,
                   success_count, outstanding, probes_sent, prev_tids>>

\* test_simple_stun, from the length check to the return and `finally`.
ClassifySimple ==
    /\ script = "simple_stun" /\ pc = "got"
    /\ LET c == classify_simple(response)
       IN /\ ret' = c.ret
          /\ report' = c.report
    /\ sock' = "closed"
    /\ pc' = "returned"
    /\ UNCHANGED benchVars
    /\ UNCHANGED <<script, wire, response, parsed, transaction_id, stun_request,
                   mapped, phase, i, success_count, outstanding, probes_sent,
                   prev_tids>>

\* The locals of a call are gone once it has returned.
ForgetCall ==
    /\ response' = <<>>
    /\ parsed' = Unparsed
    /\ sock' = "unbound"
    /\ transaction_id' = <<>>
    /\ stun_request' = <<>>
    /\ mapped' = NoMapped
    /\ ret' = "none"
    /\ report' = "none"
    /\ prev_tids' = IF transaction_id = <<>> THEN prev_tids
                    ELSE prev_tids \cup {transaction_id}

\* main, lines 155-159: success = test_stun_server(host, port); if success,
\* test_multiple_requests starts its loop.
MainAfterSingle ==
    /\ script = "stun_server" /\ pc = "returned" /\ phase = "single"
    /\ IF ret = "True"
       THEN /\ phase' = "multi"
            /\ pc' = "call"
       ELSE /\ phase' = "exit"
            /\ pc' = "done"
    /\ i' = 0
    /\ success_count' = 0
    /\ ForgetCall
    /\ UNCHANGED benchVars
    /\ UNCHANGED <<script, wire, outstanding, probes_sent>>

\* test_multiple_requests, lines 137-141: one pass of the loop after its call
\* of test_stun_server has returned.
LoopIteration ==
    /\ script = "stun_server" /\ pc = "returned" /\ phase = "multi"
    /\ success_count' = IF ret = "True" THEN success_count + 1 ELSE success_count
    /\ i' = i + 1
    /\ IF i + 1 < RequestCount
       THEN /\ pc' = "call"
            /\ phase' = "multi"
       ELSE /\ pc' = "done"
            /\ phase' = "exit"
    /\ ForgetCall
    /\ UNCHANGED benchVars
    /\ UNCHANGED <<script, wire, outstanding, probes_sent>>

\* test-simple-stun.py, lines 66-70: the verdict is printed and the script ends.
SimpleExit ==
    /\ script = "simple_stun" /\ pc = "returned"
    /\ pc' = "done"
    /\ phase' = "exit"
    /\ ForgetCall
    /\ UNCHANGED benchVars
    /\ UNCHANGED <<script, wire, i, success_count, outstanding, probes_sent>>

Next ==
    \/ CreateSocket
    \/ SocketFails
    \/ SendRequest
    \/ SendFails
    \/ RecvReply
    \/ RecvTimeout
    \/ RecvError
    \/ ClassifyReply
    \/ ClassifySimple
    \/ MainAfterSingle
    \/ LoopIteration
    \/ SimpleExit

Spec == Init /\ [][Next]_vars

\* A call of the probe function has returned and its locals are still in scope.
Returned == Running /\ pc = "returned"

-----------------------------------------------------------------------------
(* Claims about the codec, checked under SpecCodec *)

\* C2: every proper prefix of a well-formed encoded message is rejected with
\* an error; the decoder never returns a message for it.
C2_ProperPrefixRejected ==
    (Decoded /\ WellFormed(wire) /\ wire.cut < Len(WireFull(wire)))
        => parsed.error # NoError

\* A message with its type field replaced.
SwapType(msg, msg_type) == Pack16(msg_type) \o Slice(msg, 2, Len(msg))

\* C3: round trip. Decoding a well-formed encoded message whose type is a
\* response type succeeds and yields the same transaction id and the same
\* ordered attribute list; this covers the attribute-less message
\* create_stun_request builds.
C3_RoundTrip ==
    (Decoded /\ WellFormed(wire) /\ Complete(wire) /\ wire.msg_type = BindingSuccess)
        => /\ response = encode_message(wire.msg_type, wire.tid, wire.attrs)
           /\ (wire.attrs = <<>>
                 => response = SwapType(create_stun_request(wire.tid).stun_msg,
                                        BindingSuccess))
           /\ parsed.error = NoError
           /\ parsed.result.transaction_id = Hex(wire.tid)
           /\ parsed.result.attributes = wire.attrs

\* C4: the attribute section starts at offset 16. The encoder puts 4 header
\* bytes and the 12 id bytes before the first attribute, and the decoder takes
\* bytes 4..15 as the id and the first attribute's type from offset 16.
C4_AttributesAtOffset16 ==
    (Decoded /\ WellFormed(wire) /\ Complete(wire) /\ wire.attrs # <<>>)
        => /\ Slice(response, 4, 16) = wire.tid
           /\ Slice(response, 16, 18) = Pack16(wire.attrs[1].type)
           /\ parsed.error = NoError
           /\ parsed.result.transaction_id = Hex(Slice(response, 4, 16))
           /\ parsed.result.attributes # <<>>
           /\ parsed.result.attributes[1].type = Unpack16(Slice(response, 16, 18))

\* C5: when an attribute declares more value bytes than the buffer holds after
\* its header, decoding fails instead of returning a shortened value. The
\* datagram is laid out as the decoder reads it (attributes from its offset),
\* complete but for the last attribute's overstated length field.
C5_OverstatedLengthRejected ==
    (Decoded /\ wire.pad = 4 /\ wire.attrs # <<>> /\ wire.lie > 0 /\ Complete(wire))
        => parsed.error # NoError

\* C6: the too-short error, with no message, is returned for exactly the
\* inputs shorter than 20 bytes.
C6_TooShortBelow20 ==
    Decoded
        => /\ (Len(response) < 20) <=> (parsed.error = TooShortError)
           /\ (Len(response) < 20) <=> (parsed.result = NoResult)

C6_Witness ==
    /\ Decoded
    /\ Len(response) = 19
    /\ parsed.error = TooShortError
    /\ parsed.result = NoResult

\* C9: every attribute of a response the decoder accepts is in the decoded
\* list, in wire order, with its type, length and value, whatever its type.
C9_AllAttributesRetained ==
    (Decoded /\ WellFormed(wire) /\ Complete(wire) /\ parsed.error = NoError)
        => /\ Len(parsed.result.attributes) = Len(wire.attrs)
           /\ \A k \in 1..Len(wire.attrs) :
                 /\ k <= Len(parsed.result.attributes)
                 /\ parsed.result.attributes[k] = wire.attrs[k]

\* The loop itself filters nothing: when the attribute section lies where the
\* decoder looks for it and every length field is true, the decoded list is
\* the list that was encoded, unknown types included.
RetainedAtDecoderOffset ==
    (Decoded /\ wire.pad = 4 /\ wire.lie = 0 /\ wire.extra = 0 /\ Complete(wire))
        => /\ parsed.error = NoError
           /\ parsed.result.attributes = wire.attrs

-----------------------------------------------------------------------------
(* Claims about the probe, checked under Spec *)

C7_MappedAddressLayout ==
    (Returned /\ mapped # NoMapped)
        => /\ mapped.family = mapped.value[2]
           /\ mapped.port = mapped.value[3] * 256 + mapped.value[4]
           /\ (mapped.value[2] = 1
                 => mapped.ip = <<mapped.value[5], mapped.value[6],
                                  mapped.value[7], mapped.value[8]>>)

\* C8: a MAPPED-ADDRESS value whose family is neither IPv4 nor IPv6 makes the
\* decoding fail; the probe does not accept the reply. The values taken here
\* carry an unrecognised family both in byte 1 and where the script reads it.
C8_UnsupportedFamilyRejected ==
    (/\ Returned
     /\ mapped # NoMapped
     /\ mapped.value[2] \notin {1, 2}
     /\ mapped.family \notin {1, 2})
        => ret # "True"

\* C10: no two outstanding probes carry the same transaction id.
C10_OutstandingIdsDistinct ==
    \A p \in outstanding : \A q \in outstanding : p # q => p.tid # q.tid

\* A probe is outstanding under an id that an earlier probe of the same run
\* carried: the ids repeat, the outstanding ones do not.
C10_Witness ==
    /\ Running
    /\ pc = "recv"
    /\ CurrentProbe \in outstanding
    /\ transaction_id \in prev_tids
    /\ probes_sent >= 2

\* C11: a probe always ends with a classified outcome and no exception leaves
\* it: a timeout, an undecodable reply and a socket-level failure (the failure
\* to create the socket included) each end the call with a failure verdict.
C11_ProbeAlwaysClassified ==
    /\ ret # "raised"
    /\ pc # "crashed"
    /\ Returned
         => /\ ret \in {"True", "False"}
            /\ (ret = "True") <=> (report = "success")
            /\ ret = "False"
                 => report \in {"timeout", "parse_failed", "too_short", "error",
                                "unexpected_type"}

\* C31: test_stun_server returns success for every reply of at least 20
\* bytes whose message type is 0x0101, whatever attributes it carries.
C31_BindingSuccessAlwaysAccepted ==
    (/\ Returned /\ script = "stun_server"
     /\ Len(response) >= 20
     /\ Unpack16(Slice(response, 0, 2)) = 257)
        => ret = "True"

\* The same for the replies in which no MAPPED-ADDRESS value of 8 bytes or
\* more names family 0x01 where the script reads it: they are all accepted.
C31_AcceptedUnlessNtoaRaises ==
    (/\ Returned /\ script = "stun_server"
     /\ Len(response) >= 20
     /\ Unpack16(Slice(response, 0, 2)) = 257
     /\ (mapped = NoMapped \/ ~mapped.raised))
        => ret = "True"

-----------------------------------------------------------------------------
(* SpecBench: one call of a benchmark phase of test-speed.py or             *)
(* test-relay-speed.py                                                      *)

\* The phases.  "latency_speed" is SpeedTest.test_latency, "latency_relay" is
\* RelaySpeedTest.test_latency, "throughput" is SpeedTest.test_throughput,
\* "concurrent_speed" and "concurrent_relay" are the two
\* test_concurrent_throughput, "stress" is SpeedTest.test_stress,
\* "concurrent_simple" is test_relay_concurrent of test-simple-relay.py,
\* "single_throughput" is RelaySpeedTest.test_single_throughput.
Benches ==
    {"latency_speed", "latency_relay", "throughput", "concurrent_speed",
     "concurrent_relay", "stress", "concurrent_simple", "single_throughput"}

IsConcurrent ==
    bench \in {"concurrent_speed", "concurrent_relay", "concurrent_simple"}
\* a client makes one exchange and has no loop
OneShot == bench = "concurrent_simple"
\* while time.time() - start_time < duration
DurationBound == bench \in {"concurrent_speed", "concurrent_relay", "stress"}
\* for i in range(iterations) / for size in data_sizes
Counted ==
    bench \in {"latency_speed", "latency_relay", "throughput",
               "single_throughput"}
\* the socket is created inside the loop body
SocketPerExchange ==
    bench \in {"latency_relay", "throughput", "single_throughput"}

InitBench ==
    /\ script = "bench"
    /\ pc = "idle"
    /\ wire = NoWire
    /\ response = <<>>
    /\ parsed = Unparsed
    /\ ProbeIdle
    /\ bench \in Benches
    /\ num_clients \in IF IsConcurrent THEN 1..MaxClients ELSE {1}
    /\ duration \in IF DurationBound THEN {0, MaxDuration} ELSE {0}
    /\ iterations \in IF Counted THEN 0..MaxIterations ELSE {0}
    /\ wk = [c \in ClientIds |->
               IF IsConcurrent \/ c # 0 THEN NewWorker
               ELSE [NewWorker EXCEPT
                       !.pc = IF SocketPerExchange THEN "loop" ELSE "begin"]]
    /\ results = <<>>
    /\ main_pc = IF IsConcurrent THEN "start" ELSE "run"
    /\ main_i = 0
    /\ bench_ret = "none"
    /\ exc = "none"
    /\ published = NoPublished
    /\ SideIdle

Benching == script = "bench"

\* time.time() - start_time < duration
WithinDuration_le(elapsed) == elapsed <= duration
WithinDuration(elapsed) == elapsed < duration

\* The loop condition of client c.
ContinueLoop_unbounded(c) ==
    IF DurationBound THEN TRUE ELSE wk[c].iter < iterations
ContinueLoop(c) ==
    IF DurationBound THEN WithinDuration(wk[c].elapsed)
    ELSE wk[c].iter < iterations

\* Does the timeout set by sock.settimeout on the recvfrom that the client
\* with locals w is blocked in run out within the current tick?
TimedOut(w) == w.waited >= SockTimeout

\* Is a datagram that recvfrom returned counted (as a received message, as a
\* latency sample, as a successful size), given whether it equals the message
\* just sent?  Both test_latency append the latency without looking at the
\* datagram; every other loop compares: `if response == message`.
Counts_any(echo) == TRUE
Counts(echo) == echo \/ bench \in {"latency_speed", "latency_relay"}

\* Does exception e, raised by sendto or recvfrom, leave the loop?  The loop
\* of SpeedTest.test_latency has no handler of its own, nor has the one
\* exchange of test_relay_concurrent; client_thread of test-speed.py catches
\* socket.timeout only; every other loop catches Exception.
Escapes_always(e) == TRUE
Escapes(e) ==
    CASE bench \in {"latency_speed", "concurrent_simple"} -> TRUE
      [] bench = "concurrent_speed" -> e # "timeout"
      [] OTHER -> FALSE

\* results.append(entry)
PublishReport_overwrite(list, entry) == <<entry>>
PublishReport(list, entry) == Append(list, entry)

\* thread.join() returns
ThreadTerminated_nowait(w) == TRUE
ThreadTerminated(w) == w.pc \in {"done", "died"}

\* results[client_id] = value, on a dict kept in insertion order
SetItem(list, entry) ==
    IF \E k \in 1..Len(list) : list[k].client_id = entry.client_id
    THEN [k \in 1..Len(list) |->
            IF list[k].client_id = entry.client_id THEN entry ELSE list[k]]
    ELSE Append(list, entry)

\* How a client hands its entry to the shared collection.
Publish(list, entry) ==
    IF OneShot THEN SetItem(list, entry) ELSE PublishReport(list, entry)

\* What the outer handler of a client thread leaves in the collection.
ErrorEntry(c, e) ==
    IF OneShot THEN [client_id |-> c, success |-> FALSE]
    ELSE [client_id |-> c, error |-> e]

\* The handler `except Exception` around the whole loop, reached with
\* exception e by the client whose locals are w, and the `finally:
\* sock.close()` after it: a client thread appends an error entry, a
\* single-threaded phase returns False.
OuterExcept(c, w, e) ==
    /\ wk' = [wk EXCEPT ![c] = [w EXCEPT !.pc = "done", !.sock = "closed",
                                         !.elapsed = 0]]
    /\ IF IsConcurrent
       THEN /\ results' = Publish(results, ErrorEntry(c, e))
            /\ UNCHANGED <<bench_ret, main_pc, published, exc>>
       ELSE /\ bench_ret' = "False"
            /\ main_pc' = "returned"
            /\ exc' = e
            /\ UNCHANGED <<results, published>>

\* The loop body is left by `continue`, or by the handler of test_throughput
\* that records the size as failed, and the loop goes on; test_stress counts
\* an error.
Continue(c, w) ==
    /\ wk' = [wk EXCEPT ![c] =
                [w EXCEPT !.pc = "loop",
                          !.errors = @ + (IF bench = "stress" THEN 1 ELSE 0)]]
    /\ UNCHANGED <<results, bench_ret, main_pc, published, exc>>

\* Exception e raised inside the loop body.
Raise(c, w, e) ==
    IF Escapes(e) THEN OuterExcept(c, w, e) ELSE Continue(c, w)

probeFrame == <<script, pc, wire, response, parsed, sock, transaction_id,
                stun_request, mapped, ret, report, phase, i, success_count,
                outstanding, probes_sent, prev_tids>>
benchParams == <<bench, num_clients, duration, iterations>>

\* thread.start() of the next client thread; after the last one the caller
\* goes on to the join loop.
StartThread ==
    /\ Benching /\ main_pc = "start"
    /\ wk' = [wk EXCEPT ![main_i] = [@ EXCEPT !.pc = "begin"]]
    /\ IF main_i + 1 = num_clients
       THEN main_pc' = "join" /\ main_i' = 0
       ELSE main_pc' = main_pc /\ main_i' = main_i + 1
    /\ UNCHANGED <<results, bench_ret, exc, published>>
    /\ UNCHANGED benchParams /\ UNCHANGED probeFrame
    /\ UNCHANGED sideVars

\* Where client c creates its socket: once before the loop, or at the head
\* of an iteration the loop condition admits.
AtSocket(c) ==
    IF SocketPerExchange THEN wk[c].pc = "loop" /\ ContinueLoop(c)
    ELSE wk[c].pc = "begin"

\* The socket that the name `sock` denotes in the frame of client c: `sock`
\* is assigned in client_thread and so is a local of each call; it denotes
\* the socket that call created.
Bound_shared(c) == 0
Bound(c) == c

\* The locals w of client c after a call of a method of `sock`.
Using(c, w) == [w EXCEPT !.used = @ \cup {Bound(c)}]

\* socket.socket(...) and settimeout succeed; a duration-bound loop then
\* zeroes its counters and reads start_time.
OpenSocket(c) ==
    /\ Benching /\ main_pc # "returned" /\ AtSocket(c)
    /\ wk' = [wk EXCEPT ![c] =
                IF SocketPerExchange
                THEN [Using(c, @) EXCEPT !.pc = "send", !.sock = "open",
                                         !.iter = @ + 1]
                ELSE [Using(c, @) EXCEPT
                               !.pc = IF OneShot THEN "send" ELSE "loop",
                               !.sock = "open"]]
    /\ UNCHANGED <<results, main_pc, main_i, bench_ret, exc, published>>
    /\ UNCHANGED benchParams /\ UNCHANGED probeFrame
    /\ UNCHANGED sideVars

\* How a single-threaded phase with one socket ends when socket.socket
\* raises: `except Exception` returns False, then `finally: sock.close()`
\* reads the name sock, which was never bound, and the UnboundLocalError
\* replaces the return.
AfterFailedSocket_returns == [ret |-> "False", exc |-> "OSError"]
AfterFailedSocket == [ret |-> "raised", exc |-> "UnboundLocalError"]

\* socket.socket(...) raises OSError.  Inside the loop body the iteration is
\* given up.  Before the loop the outer handler runs and then `finally:
\* sock.close()` reads the unbound local: the UnboundLocalError ends the
\* client thread after its error entry, and leaves a single-threaded phase
\* in place of its return value.
OpenSocketFails(c) ==
    /\ Benching /\ main_pc # "returned" /\ AtSocket(c)
    /\ IF SocketPerExchange
       THEN Continue(c, [wk[c] EXCEPT !.iter = @ + 1])
       ELSE /\ wk' = [wk EXCEPT ![c] = [@ EXCEPT !.pc = "died"]]
            /\ IF IsConcurrent
               THEN /\ results' = Publish(results, ErrorEntry(c, "OSError"))
                    /\ UNCHANGED <<bench_ret, main_pc, published, exc>>
               ELSE /\ bench_ret' = AfterFailedSocket.ret
                    /\ main_pc' = "returned"
                    /\ exc' = AfterFailedSocket.exc
                    /\ UNCHANGED <<results, published>>
    /\ UNCHANGED main_i
    /\ UNCHANGED benchParams /\ UNCHANGED probeFrame
    /\ UNCHANGED sideVars

\* Where client c calls sendto: after creating the socket of this iteration,
\* or at the head of an iteration the loop condition admits.
AtSend(c) ==
    IF SocketPerExchange \/ OneShot THEN wk[c].pc = "send"
    ELSE wk[c].pc = "loop" /\ ContinueLoop(c)

\* The model follows a duration-bound loop while its counters are small.
Followed(c) ==
    CASE IsConcurrent -> wk[c].messages_sent < MaxClientExchanges
      [] bench = "stress" -> /\ wk[c].messages_sent < MaxExchanges
                             /\ wk[c].errors < MaxExchanges
      [] OTHER -> TRUE

\* The locals of c once the iteration is entered.
Entered(c) ==
    IF bench = "latency_speed" THEN [wk[c] EXCEPT !.iter = @ + 1] ELSE wk[c]

\* messages_sent += 1, the statement after sendto
CountSent_never(n) == n
CountSent(n) == n + 1

\* The loop condition holds, the message is built and sendto succeeds; a
\* duration-bound loop counts the message as sent.
Sendto(c) ==
    /\ Benching /\ main_pc # "returned" /\ AtSend(c) /\ Followed(c)
    /\ wk' = [wk EXCEPT ![c] =
                [Using(c, Entered(c)) EXCEPT
                   !.pc = "recv", !.waited = 0,
                   !.messages_sent = IF DurationBound THEN CountSent(@) ELSE @]]
    /\ UNCHANGED <<results, main_pc, main_i, bench_ret, exc, published>>
    /\ UNCHANGED benchParams /\ UNCHANGED probeFrame
    /\ UNCHANGED sideVars

\* sendto raises OSError: nothing is counted as sent.
SendtoRaises(c) ==
    /\ Benching /\ main_pc # "returned" /\ AtSend(c) /\ Followed(c)
    /\ Raise(c, Using(c, Entered(c)), "OSError")
    /\ UNCHANGED main_i
    /\ UNCHANGED benchParams /\ UNCHANGED probeFrame
    /\ UNCHANGED sideVars

\* recvfrom returns a datagram before the socket's timeout runs out, at the
\* latest within the tick in which it would: the message just sent (echo) or
\* something else.  test_latency takes any datagram as a sample; the other
\* loops count it only if it equals the message.  A loop that creates a
\* socket per iteration closes it here; a duration-bound loop goes to sleep.
\* The client of test_relay_concurrent stores the comparison under its id and
\* ends.
Recvfrom(c, echo) ==
    /\ Benching /\ main_pc # "returned"
    /\ wk[c].pc = "recv"
    /\ results' = IF OneShot
                  THEN Publish(results, [client_id |-> c, success |-> echo])
                  ELSE results
    /\ wk' = [wk EXCEPT ![c] =
                [Using(c, @) EXCEPT
                   !.pc = CASE OneShot -> "done"
                            [] DurationBound -> "sleep"
                            [] OTHER -> "loop",
                   !.waited = 0,
                   !.sock = IF SocketPerExchange \/ OneShot THEN "closed" ELSE @,
                   !.messages_received = @ + (IF Counts(echo) THEN 1 ELSE 0),
                   !.echoes = @ + (IF echo THEN 1 ELSE 0)]]
    /\ UNCHANGED <<main_pc, main_i, bench_ret, exc, published>>
    /\ UNCHANGED benchParams /\ UNCHANGED probeFrame
    /\ UNCHANGED sideVars

\* time.sleep returns within the tick in which it was called, and the loop
\* condition is evaluated again.  (The sleep is shorter than a tick; if the
\* tick ends first, the sleep returns in the next one: see Later.)
Wake(c) ==
    /\ Benching /\ main_pc # "returned"
    /\ wk[c].pc = "sleep"
    /\ wk' = [wk EXCEPT ![c] = [@ EXCEPT !.pc = "loop", !.waited = 0]]
    /\ UNCHANGED <<results, main_pc, main_i, bench_ret, exc, published>>
    /\ UNCHANGED benchParams /\ UNCHANGED probeFrame
    /\ UNCHANGED sideVars

\* recvfrom raises socket.timeout once the socket's timeout has run out.
RecvfromTimeout(c) ==
    /\ Benching /\ main_pc # "returned"
    /\ wk[c].pc = "recv"
    /\ TimedOut(wk[c])
    /\ Raise(c, [Using(c, wk[c]) EXCEPT !.waited = 0], "timeout")
    /\ UNCHANGED main_i
    /\ UNCHANGED benchParams /\ UNCHANGED probeFrame
    /\ UNCHANGED sideVars

\* recvfrom raises another OSError (for instance ConnectionRefusedError after
\* an ICMP port-unreachable) before the timeout has run out.
RecvfromRaises(c) ==
    /\ Benching /\ main_pc # "returned"
    /\ wk[c].pc = "recv"
    /\ ~TimedOut(wk[c])
    /\ Raise(c, [Using(c, wk[c]) EXCEPT !.waited = 0], "OSError")
    /\ UNCHANGED main_i
    /\ UNCHANGED benchParams /\ UNCHANGED probeFrame
    /\ UNCHANGED sideVars

\* received / sent * 100 if sent > 0 else 0, kept as an exact fraction
SuccessRate(received, sent) ==
    IF sent > 0 THEN [num |-> 100 * received, den |-> sent]
    ELSE [num |-> 0, den |-> 1]

StressThreshold == 80

\* success_rate > 80
Above_ge(rate, t) == rate.num >= t * rate.den
Above(rate, t) == rate.num > t * rate.den

\* The report a client thread appends after its loop.
Report(c) ==
    [client_id |-> c,
     messages_sent |-> wk[c].messages_sent,
     messages_received |-> wk[c].messages_received,
     success_rate |-> SuccessRate(wk[c].messages_received, wk[c].messages_sent)]

\* Can end_time - start_time be 0.0?  Only if no tick has passed since
\* start_time was read, and then it depends on the clock's resolution.
ClockStood(c) == IF wk[c].elapsed = 0 THEN BOOLEAN ELSE {FALSE}

\* A single-threaded phase stores its entry in self.results and returns.
ReturnResult(c, entry, verdict) ==
    /\ wk' = [wk EXCEPT ![c] =
                [@ EXCEPT !.pc = "done",
                          !.sock = IF SocketPerExchange THEN @ ELSE "closed"]]
    /\ published' = entry
    /\ bench_ret' = IF verdict THEN "True" ELSE "False"
    /\ main_pc' = "returned"
    /\ UNCHANGED <<results, exc>>

\* The loop condition fails: the code after the loop.
LoopExit(c) ==
    /\ Benching /\ main_pc # "returned"
    /\ wk[c].pc = "loop" /\ ~ContinueLoop(c)
    /\ \E stood \in ClockStood(c) :
         CASE bench = "concurrent_speed" ->
                /\ wk' = [wk EXCEPT ![c] = [@ EXCEPT !.pc = "done",
                                                     !.sock = "closed",
                                                     !.elapsed = 0]]
                /\ results' = Publish(results, Report(c))
                /\ UNCHANGED <<bench_ret, main_pc, published, exc>>
           [] bench = "concurrent_relay" ->
                \* throughput_mbps divides by actual_duration
                IF stood THEN OuterExcept(c, wk[c], "ZeroDivisionError")
                ELSE /\ wk' = [wk EXCEPT ![c] = [@ EXCEPT !.pc = "done",
                                                          !.sock = "closed",
                                                          !.elapsed = 0]]
                     /\ results' = Publish(results, Report(c))
                     /\ UNCHANGED <<bench_ret, main_pc, published, exc>>
           [] bench = "stress" ->
                \* messages_per_second divides by actual_duration
                IF stood THEN OuterExcept(c, wk[c], "ZeroDivisionError")
                ELSE ReturnResult(c,
                        [kind |-> "stress",
                         messages_sent |-> wk[c].messages_sent,
                         messages_received |-> wk[c].messages_received,
                         errors |-> wk[c].errors,
                         success_rate |-> SuccessRate(wk[c].messages_received,
                                                      wk[c].messages_sent)],
                        Above(SuccessRate(wk[c].messages_received,
                                          wk[c].messages_sent), StressThreshold))
           [] bench = "latency_speed" ->
                \* statistics.mean(latencies)
                IF wk[c].messages_received = 0
                THEN OuterExcept(c, wk[c], "StatisticsError")
                ELSE ReturnResult(c, [kind |-> "latency",
                                      count |-> wk[c].messages_received], TRUE)
           [] bench = "latency_relay" ->
                IF wk[c].messages_received > 0
                THEN ReturnResult(c, [kind |-> "latency",
                                      count |-> wk[c].messages_received], TRUE)
                ELSE /\ wk' = [wk EXCEPT ![c] = [@ EXCEPT !.pc = "done"]]
                     /\ bench_ret' = "False"
                     /\ main_pc' = "returned"
                     /\ UNCHANGED <<results, published, exc>>
           [] bench = "throughput" ->
                ReturnResult(c, [kind |-> "throughput", sizes |-> wk[c].iter,
                                 succeeded |-> wk[c].messages_received],
                             wk[c].messages_received > 0)
           [] bench = "single_throughput" ->
                \* if durations: ... return {...}; else: return None.  The
                \* throughput divides by avg_duration outside any try.
                /\ wk' = [wk EXCEPT ![c] = [@ EXCEPT !.pc = "done"]]
                /\ main_pc' = "returned"
                /\ bench_ret' = CASE wk[c].messages_received = 0 -> "None"
                                  [] stood -> "raised"
                                  [] OTHER -> "dict"
                /\ exc' = IF wk[c].messages_received > 0 /\ stood
                          THEN "ZeroDivisionError" ELSE exc
                /\ UNCHANGED <<results, published>>
    /\ UNCHANGED main_i
    /\ UNCHANGED benchParams /\ UNCHANGED probeFrame
    /\ UNCHANGED sideVars

\* thread.join() of the next thread of the join loop returns; after the last
\* one the caller goes on to the aggregation.
JoinThread ==
    /\ Benching /\ main_pc = "join"
    /\ ThreadTerminated(wk[main_i])
    /\ IF main_i + 1 = num_clients
       THEN main_pc' = "aggregate" /\ main_i' = 0
       ELSE main_pc' = main_pc /\ main_i' = main_i + 1
    /\ UNCHANGED <<wk, results, bench_ret, exc, published>>
    /\ UNCHANGED benchParams /\ UNCHANGED probeFrame
    /\ UNCHANGED sideVars

\* [r for r in results if 'error' not in r]
successful_results(list) == SelectSeq(list, LAMBDA r : "error" \notin DOMAIN r)

RECURSIVE total_sent(_)
total_sent(list) ==
    IF list = <<>> THEN 0 ELSE Head(list).messages_sent + total_sent(Tail(list))

RECURSIVE total_received(_)
total_received(list) ==
    IF list = <<>> THEN 0
    ELSE Head(list).messages_received + total_received(Tail(list))

\* The code after the join loop: the totals over the entries without an
\* 'error' key.  total_received / total_sent raises ZeroDivisionError when
\* total_sent is 0, and nothing in the function catches it.
\* test_relay_concurrent compares the number of True values with the number
\* of entries.
Aggregate ==
    /\ Benching /\ main_pc = "aggregate"
    /\ main_pc' = "returned"
    /\ LET ok == successful_results(results) IN
         IF OneShot
         THEN \* successful == total
              /\ bench_ret' = IF \A k \in 1..Len(results) : results[k].success
                              THEN "True" ELSE "False"
              /\ UNCHANGED <<exc, published>>
         ELSE IF ok = <<>>
         THEN bench_ret' = "False" /\ UNCHANGED <<exc, published>>
         ELSE IF total_sent(ok) = 0
         THEN /\ bench_ret' = "raised"
              /\ exc' = "ZeroDivisionError"
              /\ UNCHANGED published
         ELSE /\ bench_ret' = "True"
              /\ published' =
                    [kind |-> "concurrent",
                     total_sent |-> total_sent(ok),
                     total_received |-> total_received(ok),
                     overall_success_rate |->
                         [num |-> 100 * total_received(ok),
                          den |-> total_sent(ok)],
                     clients |-> ok]
              /\ UNCHANGED exc
    /\ UNCHANGED <<wk, results, main_i>>
    /\ UNCHANGED benchParams /\ UNCHANGED probeFrame
    /\ UNCHANGED sideVars

\* The locals of a client one tick later: a sleeping client has woken up.
\* The model stops counting two ticks after the latest time a loop can still
\* be exchanging.
Later(w) ==
    [w EXCEPT
       !.elapsed = IF DurationBound /\ w.pc \in {"loop", "recv", "sleep"}
                      /\ w.elapsed < duration + SockTimeout + 2
                   THEN @ + 1 ELSE @,
       !.waited = IF w.pc = "recv" /\ w.waited < SockTimeout + 1
                  THEN @ + 1 ELSE @,
       !.pc = IF w.pc = "sleep" THEN "loop" ELSE @]

\* Is client c between two blocking calls, with a step of its loop to take?
\* The code there takes no time that the clock of the model would show.
Busy(c) ==
    \/ wk[c].pc = "send"
    \/ wk[c].pc = "loop" /\ (~ContinueLoop(c) \/ Followed(c))

\* The clock advances by one tick while every client is blocked in recvfrom
\* or in time.sleep, not yet running, or finished; a pending recvfrom that
\* has reached its timeout must raise first.
Tick ==
    /\ Benching /\ main_pc # "returned"
    /\ \A c \in ClientIds :
          /\ wk[c].pc = "recv" => ~TimedOut(wk[c])
          /\ ~Busy(c)
    /\ wk' = [c \in ClientIds |-> Later(wk[c])]
    /\ wk' # wk
    /\ UNCHANGED <<results, main_pc, main_i, bench_ret, exc, published>>
    /\ UNCHANGED benchParams /\ UNCHANGED probeFrame
    /\ UNCHANGED sideVars

NextBench ==
    \/ StartThread
    \/ JoinThread
    \/ Aggregate
    \/ Tick
    \/ \E c \in ClientIds :
          \/ OpenSocket(c)
          \/ OpenSocketFails(c)
          \/ Sendto(c)
          \/ SendtoRaises(c)
          \/ \E echo \in BOOLEAN : Recvfrom(c, echo)
          \/ Wake(c)
          \/ RecvfromTimeout(c)
          \/ RecvfromRaises(c)
          \/ LoopExit(c)

SpecBench == InitBench /\ [][NextBench]_vars

BenchReturned == Benching /\ main_pc = "returned"

-----------------------------------------------------------------------------
(* Claims about the benchmark phases *)

\* C12: a latency sweep of n iterations that has returned has entered all n
\* iterations when nothing but timeouts went wrong on the way; only a failure
\* to create the socket (which leaves test_latency by an exception) ends it
\* earlier.
C12_SweepPerformsAllIterations ==
    (BenchReturned /\ bench \in {"latency_speed", "latency_relay"}
       /\ bench_ret # "raised" /\ exc \in {"none", "timeout"})
        => wk[0].iter = iterations

Started == 0..(num_clients - 1)

\* C13: in a concurrent phase the code after the join loop runs only when
\* every client thread that was started has terminated and has handed in its
\* entry.
C13_AggregateAfterAllTerminated ==
    (Benching /\ IsConcurrent /\ main_pc \in {"aggregate", "returned"})
        => \A c \in Started :
              /\ wk[c].pc \in {"done", "died"}
              /\ \E k \in 1..Len(results) : results[k].client_id = c

\* The aggregate has been computed over the entries of MaxClients clients,
\* the last of which was started first.
C13_Witness ==
    /\ Benching /\ bench = "concurrent_speed" /\ main_pc = "returned"
    /\ num_clients = MaxClients
    /\ published # NoPublished
    /\ results[Len(results)].client_id = 0

\* C15: every client writes into the shared collection once, after its own
\* loop (or exchange) has ended; whatever the interleaving, the collection
\* holds one entry for each terminated client and none for the others, the
\* entry of a client carries that client's counts, and after the join it
\* holds exactly one entry for each client that was started.
C15_OneEntryPerWorker ==
    (Benching /\ IsConcurrent)
        => /\ \A k \in 1..Len(results) :
                /\ results[k].client_id \in Started
                /\ wk[results[k].client_id].pc \in {"done", "died"}
                /\ "messages_sent" \in DOMAIN results[k]
                     => /\ results[k].messages_sent
                             = wk[results[k].client_id].messages_sent
                        /\ results[k].messages_received
                             = wk[results[k].client_id].messages_received
           /\ \A j, k \in 1..Len(results) :
                results[j].client_id = results[k].client_id => j = k
           /\ \A c \in Started :
                wk[c].pc \in {"done", "died"}
                    => \E k \in 1..Len(results) : results[k].client_id = c
           /\ main_pc \in {"aggregate", "returned"}
                => Len(results) = num_clients

\* All MaxClients clients have written, in an order that is not the order in
\* which they were started, and one of them wrote an error entry.
C15_Witness ==
    /\ Benching /\ IsConcurrent /\ main_pc = "aggregate"
    /\ Len(results) = MaxClients
    /\ results[1].client_id # 0
    /\ \E k \in 1..Len(results) : "error" \in DOMAIN results[k]

\* C14: a concurrent phase of N clients that has returned, all of whose
\* clients got their socket, has stored a result whose 'clients' list holds
\* exactly N reports, one for each client id, whatever happened to the
\* clients' exchanges.
C14_AllReportsPublished ==
    (Benching /\ bench \in {"concurrent_speed", "concurrent_relay"}
       /\ main_pc = "returned" /\ bench_ret # "raised"
       /\ \A c \in ClientIds : wk[c].pc # "died")
        => /\ published # NoPublished
           /\ Len(published.clients) = num_clients
           /\ \A c \in Started :
                 \E k \in 1..Len(published.clients) :
                    published.clients[k].client_id = c

\* Messages sent and received by the clients 0..n-1, as their own counters
\* have them.
RECURSIVE SentBy(_)
SentBy(n) == IF n = 0 THEN 0 ELSE wk[n - 1].messages_sent + SentBy(n - 1)

RECURSIVE ReceivedBy(_)
ReceivedBy(n) ==
    IF n = 0 THEN 0 ELSE wk[n - 1].messages_received + ReceivedBy(n - 1)

\* C16: the overall success rate a concurrent phase stores is 100 x (messages
\* received by all started clients) / (messages sent by all started
\* clients), and both totals it stores cover every started client.
C16_AggregateRateOverAllWorkers ==
    (Benching /\ bench \in {"concurrent_speed", "concurrent_relay"}
       /\ main_pc = "returned" /\ published # NoPublished)
        => /\ published.total_sent = SentBy(num_clients)
           /\ published.total_received = ReceivedBy(num_clients)
           /\ published.overall_success_rate.num * SentBy(num_clients)
                = 100 * ReceivedBy(num_clients)
                    * published.overall_success_rate.den

\* C17: a phase of test-speed.py that ran with duration 0 or with 0
\* iterations, and whose sockets could be created, has returned a result
\* (with its zero counts) and has raised no division or statistics error.
C17_EmptySampleSetSummarized ==
    (Benching /\ bench \in {"concurrent_speed", "stress", "latency_speed"}
       /\ main_pc = "returned"
       /\ (IF DurationBound THEN duration = 0 ELSE iterations = 0)
       /\ \A c \in ClientIds : wk[c].pc # "died")
        => /\ exc \notin {"ZeroDivisionError", "StatisticsError"}
           /\ bench_ret # "raised"
           /\ published # NoPublished

\* C18: test_stress returns True exactly when it sent something and
\* 100 x messages_received / messages_sent is strictly greater than 80; at
\* exactly 80 percent, below it and with nothing sent it returns False.
C18_StressSuccessAbove80 ==
    (Benching /\ bench = "stress" /\ main_pc = "returned")
        => LET sent == wk[0].messages_sent
               received == wk[0].messages_received
               above == sent > 0 /\ 100 * received > 80 * sent
           IN /\ bench_ret = "True" <=> above
              /\ (~above /\ bench_ret # "raised") => bench_ret = "False"

\* test_stress has returned with 4 of 5 messages echoed: exactly 80 percent.
C18_Witness ==
    /\ Benching /\ bench = "stress" /\ main_pc = "returned"
    /\ wk[0].messages_sent = 5 /\ wk[0].messages_received = 4
    /\ published # NoPublished
    /\ bench_ret = "False"

\* C19: in test_throughput, in client_thread of test-speed.py and in
\* test_stress, the step in which recvfrom times out, and the step in which it
\* returns something else than the message, leave the loop running: the
\* phase has not returned, the client has written no entry, nothing is counted
\* as received, and the client is still in its loop.
C19_FailedExchangeKeepsPhaseRunning ==
    [][\A c \in ClientIds :
         (bench \in {"throughput", "concurrent_speed", "stress"}
            /\ (RecvfromTimeout(c) \/ Recvfrom(c, FALSE)))
          => /\ wk'[c].pc \in {"loop", "sleep"}
             /\ main_pc' = main_pc
             /\ bench_ret' = "none"
             /\ results' = results
             /\ wk'[c].messages_sent = wk[c].messages_sent
             /\ wk'[c].messages_received = wk[c].messages_received]_vars

\* test_stress is in its third exchange although neither of the first two
\* was echoed and one of them raised.
C19_Witness ==
    /\ Benching /\ bench = "stress"
    /\ wk[0].pc = "recv"
    /\ wk[0].messages_sent = 3 /\ wk[0].messages_received = 0
    /\ wk[0].errors = 1
    /\ wk[0].elapsed >= SockTimeout

\* C20: in a duration-bound loop a message is sent only in a step that starts
\* with less than `duration` elapsed since that client read its start_time,
\* and a pending recvfrom ends only by a datagram, by its own timeout or by
\* an error of the socket: the deadline does not end it.
C20_SoftDeadline ==
    [][\A c \in ClientIds :
         DurationBound
          => /\ wk'[c].messages_sent > wk[c].messages_sent
                  => wk[c].elapsed < duration
             /\ (wk[c].pc = "recv" /\ wk'[c].pc # "recv")
                  => \/ \E echo \in BOOLEAN : Recvfrom(c, echo)
                     \/ RecvfromTimeout(c) /\ wk[c].waited >= SockTimeout
                     \/ RecvfromRaises(c)]_vars

\* Two clients that started at different times: for one the duration has
\* elapsed while its exchange is in flight, the other is still within its own.
C20_Witness ==
    /\ Benching /\ IsConcurrent /\ duration > 0
    /\ wk[0].pc = "recv" /\ wk[0].elapsed >= duration
    /\ wk[1].pc = "loop" /\ wk[1].elapsed < duration

\* C21: a duration-bound loop (the stress loop, each concurrent client) is
\* running no later than `duration` plus one per-exchange timeout after its
\* own start: while a client is at the head of the loop, blocked in recvfrom
\* or asleep, fewer than duration + SockTimeout whole ticks have passed since
\* its start_time.
C21_LoopEndsWithinDurationPlusTimeout ==
    (Benching /\ DurationBound) =>
        \A c \in ClientIds :
            wk[c].pc \in {"loop", "recv", "sleep"} =>
                wk[c].elapsed < duration + SockTimeout

\* The timeouts alone keep the bound: a loop whose last exchange ended in
\* socket.timeout is over before duration + SockTimeout.
C21_TimeoutsKeepBound ==
    [][\A c \in ClientIds :
          (Benching /\ DurationBound /\ RecvfromTimeout(c)) =>
              wk'[c].elapsed < duration + SockTimeout]_vars

-----------------------------------------------------------------------------
(* SpecBenchLive: the benchmark phases under a fair scheduler                *)

\* The steps of client c.
ClientStep(c) ==
    \/ OpenSocket(c)
    \/ OpenSocketFails(c)
    \/ Sendto(c)
    \/ SendtoRaises(c)
    \/ \E echo \in BOOLEAN : Recvfrom(c, echo)
    \/ Wake(c)
    \/ RecvfromTimeout(c)
    \/ RecvfromRaises(c)
    \/ LoopExit(c)

\* The steps of the thread that called the phase.
MainStep == StartThread \/ JoinThread \/ Aggregate

\* Time passes, and a thread that can run is run.  Nothing is assumed about
\* the remote endpoint: no reply is ever required to arrive.
SpecBenchLive ==
    /\ SpecBench
    /\ WF_vars(Tick)
    /\ WF_vars(MainStep)
    /\ \A c \in ClientIds : WF_vars(ClientStep(c))

\* C22: every phase eventually returns to its caller (with a value or with
\* an exception), whatever the remote endpoint does, also if it never
\* replies.
C22_PhaseReturns == <>(Benching /\ main_pc = "returned")

\* test_stress has returned although none of its messages was answered.
C22_Witness ==
    /\ Benching /\ bench = "stress" /\ main_pc = "returned"
    /\ duration > 0
    /\ wk[0].messages_sent > 1
    /\ wk[0].messages_received = 0
    /\ wk[0].errors = wk[0].messages_sent

\* The loop of the phase was left before its condition failed: the socket
\* could not be created, or an exception of sendto or recvfrom escaped.
Aborted == exc \in {"UnboundLocalError", "OSError", "timeout"}

\* C23: what test_stress and test_latency of test-speed.py hand to their
\* caller after an early abort differs from what they hand over after
\* running their loop to its end with at least one exchange made: an aborted
\* test_stress raises and a completed one returns True or False; an aborted
\* test_latency raises or returns False and a completed one returns True.
\* An aborted call leaves no entry in self.results.
C23_AbortDistinctFromCompletion ==
    (BenchReturned /\ bench \in {"stress", "latency_speed"}) =>
        LET abortValues == IF bench = "stress" THEN {"raised"}
                           ELSE {"raised", "False"}
        IN /\ Aborted => /\ bench_ret \in abortValues
                          /\ published = NoPublished
           /\ (~Aborted /\ wk[0].messages_sent + wk[0].iter > 0)
                 => bench_ret \notin abortValues

\* test_stress could not create its socket, and another call of it ran to
\* the end with nothing echoed: here the first.
C23_Witness ==
    /\ BenchReturned /\ bench = "stress"
    /\ Aborted /\ wk[0].pc = "died"
    /\ bench_ret = "raised"

\* test_stress ran to completion with a success rate of 0 and returned False.
C23_WitnessLowRate ==
    /\ BenchReturned /\ bench = "stress" /\ ~Aborted
    /\ wk[0].messages_sent > 0 /\ wk[0].messages_received = 0
    /\ bench_ret = "False" /\ published # NoPublished

\* C24: in the latency sweeps a reply that differs from the payload of its
\* exchange is not recorded as a latency sample: there are never more samples
\* than replies that equalled their payload.
C24_MismatchIsNoLatencySample ==
    (Benching /\ bench \in {"latency_speed", "latency_relay"}) =>
        \A c \in ClientIds : wk[c].messages_received <= wk[c].echoes

\* C25: the throughput sweeps (test_throughput of test-speed.py,
\* test_single_throughput of test-relay-speed.py) count an exchange as
\* successful, and record its duration, only if the datagram received equals
\* the payload sent in that exchange: the successes are never more than the
\* replies that equalled their payload, and a step that counts one is a
\* recvfrom of such a reply.
C25_SuccessOnlyOnEqualReply ==
    (Benching /\ bench \in {"throughput", "single_throughput"}) =>
        \A c \in ClientIds : wk[c].messages_received <= wk[c].echoes

C25_CountingStepIsEcho ==
    [][\A c \in ClientIds :
          (Benching /\ bench \in {"throughput", "single_throughput"}
             /\ wk'[c].messages_received # wk[c].messages_received)
          => Recvfrom(c, TRUE)]_vars

\* A sweep of two exchanges has returned; one of them got its payload back
\* and one success was counted.
C25_Witness ==
    /\ BenchReturned /\ bench \in {"throughput", "single_throughput"}
    /\ wk[0].iter = 2 /\ wk[0].echoes = 1
    /\ wk[0].messages_received = 1

\* C29: at the end of the stress phase every message sent is accounted for
\* as received or as an error: messages_sent = messages_received + errors in
\* the result test_stress stores.
C29_StressAccounting ==
    (BenchReturned /\ bench = "stress" /\ published # NoPublished) =>
        published.messages_sent
            = published.messages_received + published.errors

\* C28: in the concurrent phases (both test_concurrent_throughput,
\* test_relay_concurrent) each client thread uses only the socket it created
\* itself, so no socket is used by two clients.
C28_SocketsNotShared ==
    (Benching /\ IsConcurrent) =>
        /\ \A c \in ClientIds : wk[c].used \subseteq {c}
        /\ \A c, d \in ClientIds :
              c # d => wk[c].used \cap wk[d].used = {}

\* Two clients are both waiting for a reply, each on a socket of its own.
C28_Witness ==
    /\ Benching /\ IsConcurrent /\ num_clients = 2
    /\ wk[0].pc = "recv" /\ wk[1].pc = "recv"
    /\ wk[0].used = {0} /\ wk[1].used = {1}

\* Is the fraction a percentage between 0 and 100?
IsPercentage(rate) == rate.den > 0 /\ 0 <= rate.num /\ rate.num <= 100 * rate.den

\* C32: in the stress loop and in every concurrent worker messages_received
\* never exceeds messages_sent, and every per-worker and aggregate success
\* rate reported lies between 0 and 100.
C32_ReceivedAtMostSent ==
    (Benching /\ DurationBound)
        => /\ \A c \in ClientIds : wk[c].messages_received <= wk[c].messages_sent
           /\ \A k \in 1..Len(results) :
                 "success_rate" \in DOMAIN results[k]
                    => IsPercentage(results[k].success_rate)
           /\ (published # NoPublished /\ published.kind = "stress")
                 => IsPercentage(published.success_rate)
           /\ (published # NoPublished /\ published.kind = "concurrent")
                 => IsPercentage(published.overall_success_rate)

\* A concurrent phase has returned an aggregate in which every message of
\* every worker was echoed: the rates are at their upper end.
C32_Witness ==
    /\ BenchReturned /\ IsConcurrent /\ DurationBound
    /\ published # NoPublished
    /\ published.total_sent >= 2
    /\ published.total_received = published.total_sent
    /\ \A k \in 1..Len(results) :
          /\ "success_rate" \in DOMAIN results[k]
          /\ results[k].success_rate.num = 100 * results[k].success_rate.den

\* C33: every socket a phase opens is closed by the time the phase returns,
\* on the success, timeout and error paths alike, and the cleanup raises no
\* error when the socket could not be created.
C33_SocketsClosedAtReturn ==
    /\ BenchReturned
          => /\ \A c \in ClientIds : wk[c].sock # "open"
             /\ exc # "UnboundLocalError"
    /\ Benching => \A c \in ClientIds : wk[c].pc # "died"
    /\ (Running /\ pc \in {"returned", "crashed"})
          => /\ sock = "closed"
             /\ ret # "raised"

\* Where the socket is created once, before the loop, and was created, the
\* `finally` clause has closed it when the phase returns.
C33_ClosedWhenCreatedBeforeLoop ==
    (BenchReturned /\ ~SocketPerExchange)
        => \A c \in ClientIds : wk[c].sock # "open"

-----------------------------------------------------------------------------
(* SpecStats: what a sweep computes from the outcomes of its exchanges      *)

\* Most exchanges of a sweep drawn for SpecStats.
MaxSamples == 3

\* The measured durations drawn, in milliseconds; 0 is a clock that stood.
Durations == {0, 10, 20, 30}

Sizes == {64, 128}

\* What an exchange ended in: no datagram within the timeout, the payload
\* echoed, or another datagram; with the time measured around it.
Outcomes ==
    {[reply |-> "none", ms |-> 0]}
        \cup [reply : {"echo", "other"}, ms : Durations]

\* The sweeps that compute statistics or throughputs.
StatPhases ==
    {"latency_speed", "latency_relay", "single_throughput", "throughput"}

InitStats ==
    /\ script = "stats"
    /\ pc = "idle"
    /\ wire = NoWire
    /\ response = <<>>
    /\ parsed = Unparsed
    /\ ProbeIdle
    /\ bench \in StatPhases
    /\ num_clients = 0
    /\ duration = 0
    /\ iterations = 0
    /\ wk = [c \in ClientIds |-> NewWorker]
    /\ results = <<>>
    /\ main_pc = "idle"
    /\ main_i = 0
    /\ bench_ret = "none"
    /\ exc = "none"
    /\ published = NoPublished
    /\ exchanges \in SeqsUpTo(Outcomes, MaxSamples)
    /\ data_size \in Sizes
    /\ summary = NoSummary
    /\ inflight = {}
    /\ rcvbuf = <<>>
    /\ ex = NoExchange
    /\ LateIdle

RECURSIVE SumSeq(_)
SumSeq(list) == IF list = <<>> THEN 0 ELSE Head(list) + SumSeq(Tail(list))

RECURSIVE SumSquares(_)
SumSquares(list) ==
    IF list = <<>> THEN 0
    ELSE Head(list) * Head(list) + SumSquares(Tail(list))

\* min(list) and max(list) of a non-empty list
MinSeq(list) ==
    CHOOSE x \in {list[k] : k \in 1..Len(list)} :
        \A k \in 1..Len(list) : x <= list[k]
MaxSeq(list) ==
    CHOOSE x \in {list[k] : k \in 1..Len(list)} :
        \A k \in 1..Len(list) : x >= list[k]

\* statistics.mean(list) of a non-empty list, as an exact fraction
mean(list) == [num |-> SumSeq(list), den |-> Len(list)]

\* The sample variance of a list of two or more numbers, the sum of the
\* squared deviations from the mean divided by n - 1, as an exact fraction:
\* (n * sum(x^2) - sum(x)^2) / (n * (n - 1)).
variance(list) ==
    [num |-> Len(list) * SumSquares(list) - SumSeq(list) * SumSeq(list),
     den |-> Len(list) * (Len(list) - 1)]

\* The square root of a fraction: a fraction if it is rational, else the
\* fraction under the root.
Sqrt(f) ==
    IF \E r \in 0..(f.num + f.den) : r * r = f.num * f.den
    THEN [num |-> CHOOSE r \in 0..(f.num + f.den) : r * r = f.num * f.den,
          den |-> f.den]
    ELSE [root_of |-> f]

\* statistics.stdev(list) if len(list) > 1 else 0
stdev(list) ==
    IF Len(list) > 1 THEN Sqrt(variance(list)) ELSE [num |-> 0, den |-> 1]

\* The statistics both sweeps store for a non-empty list of samples.
Stats(list) ==
    [count |-> Len(list),
     average |-> mean(list),
     minimum |-> MinSeq(list),
     maximum |-> MaxSeq(list),
     std_dev |-> stdev(list)]

\* The measured times of the exchanges of a list, in order.
Ms(list) == [k \in 1..Len(list) |-> list[k].ms]

\* The samples a sweep has collected when its loop ends: the latency sweeps
\* append after every recvfrom that returned, test_single_throughput only
\* if the datagram equals the payload.
Collected(list) ==
    IF bench = "single_throughput"
    THEN Ms(SelectSeq(list, LAMBDA e : e.reply = "echo"))
    ELSE Ms(SelectSeq(list, LAMBDA e : e.reply # "none"))

\* The samples of the exchanges that got their payload back.
ValidSamples(list) == Ms(SelectSeq(list, LAMBDA e : e.reply = "echo"))

\* The bits counted for the round trip of a payload of `size` bytes.
RoundTripBits_oneway(size) == size * 8
RoundTripBits(size) == size * 8 * 2

\* bits / (seconds * 1000000) for a time of t.num / t.den milliseconds, as
\* an exact fraction
Mbps(bits, t) == [num |-> bits * t.den, den |-> t.num * 1000]

\* The entry test_throughput stores for one size.
SizeEntry(e) ==
    CASE e.reply = "echo" /\ e.ms > 0 ->
            [success |-> TRUE,
             duration |-> e.ms,
             throughput_mbps |->
                 Mbps(data_size * 8, [num |-> e.ms, den |-> 1]),
             throughput_mbps_roundtrip |->
                 Mbps(RoundTripBits(data_size), [num |-> e.ms, den |-> 1])]
      [] e.reply = "echo" /\ e.ms = 0 ->
            [success |-> FALSE, error |-> "ZeroDivisionError"]
      [] e.reply = "other" -> [success |-> FALSE]
      [] OTHER -> [success |-> FALSE, error |-> "timeout"]

\* What the sweep returns and stores, given the outcomes of its exchanges.
Summarized(list) ==
    CASE bench = "latency_speed" ->
            \* any exception leaves the loop: return False
            IF \E k \in 1..Len(list) : list[k].reply = "none"
            THEN [ret |-> "False", error |-> "timeout"]
            ELSE IF Collected(list) = <<>>
            THEN [ret |-> "False", error |-> "StatisticsError"]
            ELSE [ret |-> "True", stats |-> Stats(Collected(list))]
      [] bench = "latency_relay" ->
            IF Collected(list) = <<>> THEN [ret |-> "False"]
            ELSE [ret |-> "True", stats |-> Stats(Collected(list))]
      [] bench = "single_throughput" ->
            IF Collected(list) = <<>> THEN [ret |-> "None"]
            ELSE IF SumSeq(Collected(list)) = 0
            THEN [ret |-> "raised", error |-> "ZeroDivisionError"]
            ELSE [ret |-> "dict",
                  stats |-> Stats(Collected(list)),
                  successful_transfers |-> Len(Collected(list)),
                  throughput_mbps |->
                      Mbps(data_size * 8, mean(Collected(list))),
                  throughput_roundtrip_mbps |->
                      Mbps(RoundTripBits(data_size), mean(Collected(list)))]
      [] bench = "throughput" ->
            [ret |-> IF \E k \in 1..Len(list) : SizeEntry(list[k]).success
                     THEN "True" ELSE "False",
             sizes |-> [k \in 1..Len(list) |-> SizeEntry(list[k])]]

Summarize ==
    /\ script = "stats" /\ summary = NoSummary
    /\ summary' = Summarized(exchanges)
    /\ UNCHANGED <<exchanges, data_size, inflight, rcvbuf, ex, lateVars>>
    /\ UNCHANGED <<bench, num_clients, duration, iterations, wk, results,
                   main_pc, main_i, bench_ret, exc, published>>
    /\ UNCHANGED probeFrame

NextStats == Summarize

SpecStats == InitStats /\ [][NextStats]_vars

HasStats == script = "stats" /\ "stats" \in DOMAIN summary

\* C26: the duration statistics a sweep stores are those of the exchanges
\* that completed with a valid reply, the payload echoed, and of no others:
\* mean, minimum, maximum and the sample standard deviation (0 for fewer
\* than two samples) of exactly those durations.  Stated for test_latency of
\* test-speed.py and test_single_throughput of test-relay-speed.py.
C26_StatsOverValidReplies ==
    (HasStats /\ bench \in {"latency_speed", "single_throughput"}) =>
        /\ ValidSamples(exchanges) # <<>>
        /\ summary.stats = Stats(ValidSamples(exchanges))

\* test_single_throughput alone satisfies it.
C26_SingleThroughputStats ==
    (HasStats /\ bench = "single_throughput") =>
        /\ ValidSamples(exchanges) # <<>>
        /\ summary.stats = Stats(ValidSamples(exchanges))

\* The statistics themselves are the ones claimed: for the durations 10, 20,
\* 30 the mean is 20, the minimum 10, the maximum 30 and the standard
\* deviation 10, the root of the sample variance 200 / 2 (the population
\* variance would be 200 / 3); one sample has standard deviation 0.
C26_Example ==
    /\ Stats(<<10, 20, 30>>).average = [num |-> 60, den |-> 3]
    /\ Stats(<<10, 20, 30>>).minimum = 10
    /\ Stats(<<10, 20, 30>>).maximum = 30
    /\ Stats(<<10, 20, 30>>).std_dev = [num |-> 60, den |-> 6]
    /\ Stats(<<20>>).std_dev = [num |-> 0, den |-> 1]
    /\ variance(<<10, 20, 30>>) = [num |-> 600, den |-> 6]

\* C27: the round-trip throughput a sweep stores is exactly twice the
\* one-way throughput it stores for the same exchange (test_throughput) or
\* for the same mean duration (test_single_throughput).
C27_RoundTripIsTwiceOneWay ==
    script = "stats" =>
        /\ (bench = "single_throughput" /\ "throughput_mbps" \in DOMAIN summary)
              => /\ summary.throughput_mbps.den > 0
                 /\ summary.throughput_roundtrip_mbps.num
                        * summary.throughput_mbps.den
                      = 2 * summary.throughput_mbps.num
                          * summary.throughput_roundtrip_mbps.den
        /\ (bench = "throughput" /\ "sizes" \in DOMAIN summary)
              => \A k \in 1..Len(summary.sizes) :
                    summary.sizes[k].success =>
                        /\ summary.sizes[k].throughput_mbps.den > 0
                        /\ summary.sizes[k].throughput_mbps_roundtrip.num
                               * summary.sizes[k].throughput_mbps.den
                             = 2 * summary.sizes[k].throughput_mbps.num
                                 * summary.sizes[k].throughput_mbps_roundtrip.den

\* test_single_throughput has stored both throughputs for a mean of 15 ms
\* over two samples.
C27_Witness ==
    /\ script = "stats" /\ bench = "single_throughput"
    /\ "throughput_mbps" \in DOMAIN summary
    /\ summary.stats.count = 2
    /\ summary.stats.average = [num |-> 30, den |-> 2]
    /\ summary.throughput_mbps.num > 0

-----------------------------------------------------------------------------
(* SpecEcho: the exchanges of one loop on one socket, with the datagrams    *)
(* that are under way.  The k-th message the loop sends is the number k; an  *)
(* echo is the number of the message it echoes.                             *)

\* Most messages the loop of SpecEcho sends.
MaxEchoMessages == 3

InitEcho ==
    /\ script = "echo"
    /\ pc = "idle"
    /\ wire = NoWire
    /\ response = <<>>
    /\ parsed = Unparsed
    /\ ProbeIdle
    /\ bench = "none"
    /\ num_clients = 0
    /\ duration = 0
    /\ iterations = 0
    /\ wk = [c \in ClientIds |-> NewWorker]
    /\ results = <<>>
    /\ main_pc = "idle"
    /\ main_i = 0
    /\ bench_ret = "none"
    /\ exc = "none"
    /\ published = NoPublished
    /\ exchanges = <<>>
    /\ data_size = 0
    /\ summary = NoSummary
    /\ inflight = {}
    /\ rcvbuf = <<>>
    /\ ex = [NoExchange EXCEPT !.pc = "loop"]
    /\ LateIdle

Echoing == script = "echo"

echoFrame == <<bench, num_clients, duration, iterations, wk, results, main_pc,
               main_i, bench_ret, exc, published, exchanges, data_size,
               summary, lateVars>>

\* The loop builds its next message, which differs from every earlier one,
\* and sends it; the endpoint will echo it.
EchoSendto ==
    /\ Echoing /\ ex.pc = "loop" /\ ex.sent < MaxEchoMessages
    /\ ex' = [ex EXCEPT !.pc = "recv", !.sent = @ + 1,
                        !.window = @ \cup {ex.sent + 1}]
    /\ inflight' = inflight \cup {ex.sent + 1}
    /\ UNCHANGED rcvbuf
    /\ UNCHANGED echoFrame /\ UNCHANGED probeFrame

\* An echo reaches the socket and is queued there, within the timeout of
\* its own exchange or later.
EchoArrives(m) ==
    /\ Echoing /\ m \in inflight
    /\ inflight' = inflight \ {m}
    /\ rcvbuf' = Append(rcvbuf, m)
    /\ ex' = IF m \in ex.window
             THEN [ex EXCEPT !.ontime = @ \cup {m}] ELSE ex
    /\ UNCHANGED echoFrame /\ UNCHANGED probeFrame

\* An echo is lost on the way, or the endpoint never sent it.
EchoLost(m) ==
    /\ Echoing /\ m \in inflight
    /\ inflight' = inflight \ {m}
    /\ UNCHANGED <<rcvbuf, ex>>
    /\ UNCHANGED echoFrame /\ UNCHANGED probeFrame

\* The datagram recvfrom hands over: the oldest one queued in the socket.
Dequeued(buf, m) == Head(buf)

\* recvfrom returns the oldest queued datagram; the loop counts the message
\* as received if the datagram equals the message it has just sent.
EchoRecvfrom ==
    /\ Echoing /\ ex.pc = "recv" /\ rcvbuf # <<>>
    /\ ex' = [ex EXCEPT
                !.pc = "loop",
                !.counted = IF Dequeued(rcvbuf, ex.sent) = ex.sent
                            THEN @ \cup {ex.sent} ELSE @]
    /\ rcvbuf' = Tail(rcvbuf)
    /\ UNCHANGED inflight
    /\ UNCHANGED echoFrame /\ UNCHANGED probeFrame

\* Nothing is queued when the timeout of the pending recvfrom runs out:
\* socket.timeout, and the loop goes on with its next message.
EchoTimeout ==
    /\ Echoing /\ ex.pc = "recv" /\ rcvbuf = <<>>
    /\ ex.window = {ex.sent}
    /\ ex' = [ex EXCEPT !.pc = "loop", !.window = {}]
    /\ UNCHANGED <<inflight, rcvbuf>>
    /\ UNCHANGED echoFrame /\ UNCHANGED probeFrame

\* The time of one timeout has passed since message m was sent, after its
\* recvfrom has returned.  The exchanges have the same timeout, so this
\* happens in the order of the sendto calls.
WindowEnds(m) ==
    /\ Echoing /\ m \in ex.window
    /\ \A k \in ex.window : m <= k
    /\ ~(ex.pc = "recv" /\ ex.sent = m)
    /\ ex' = [ex EXCEPT !.window = @ \ {m}]
    /\ UNCHANGED <<inflight, rcvbuf>>
    /\ UNCHANGED echoFrame /\ UNCHANGED probeFrame

\* The loop ends.
EchoLoopExit ==
    /\ Echoing /\ ex.pc = "loop" /\ ex.sent = MaxEchoMessages
    /\ ex' = [ex EXCEPT !.pc = "done"]
    /\ UNCHANGED <<inflight, rcvbuf>>
    /\ UNCHANGED echoFrame /\ UNCHANGED probeFrame

NextEcho ==
    \/ EchoSendto
    \/ \E m \in 1..MaxEchoMessages : EchoArrives(m)
    \/ \E m \in 1..MaxEchoMessages : EchoLost(m)
    \/ EchoRecvfrom
    \/ EchoTimeout
    \/ \E m \in 1..MaxEchoMessages : WindowEnds(m)
    \/ EchoLoopExit

SpecEcho == InitEcho /\ [][NextEcho]_vars

\* Exchange k is over: the loop has left the recvfrom of message k.
Finished(k) == k < ex.sent \/ (k = ex.sent /\ ex.pc # "recv")

\* C30: an exchange whose own echo reached the socket within its timeout is
\* counted as received once it is over and its timeout has passed, whatever
\* happened in earlier iterations.
C30_OnTimeEchoIsCounted ==
    Echoing =>
        \A k \in ex.ontime :
            (Finished(k) /\ k \notin ex.window) => k \in ex.counted

\* It holds for an exchange that starts with nothing queued and nothing
\* under way from earlier exchanges, such as the first one.
C30_FirstExchangeCounted ==
    Echoing =>
        ((1 \in ex.ontime /\ Finished(1) /\ 1 \notin ex.window)
            => 1 \in ex.counted)

-----------------------------------------------------------------------------
(* SpecSuite: one call of run_all_tests of SpeedTest or of RelaySpeedTest,  *)
(* each phase taken by what its call returns or raises.                     *)

\* Every variable of the other specifications at rest.
CoreIdle ==
    /\ pc = "idle"
    /\ wire = NoWire
    /\ response = <<>>
    /\ parsed = Unparsed
    /\ ProbeIdle
    /\ bench = "none"
    /\ num_clients = 0
    /\ duration = 0
    /\ iterations = 0
    /\ wk = [c \in ClientIds |-> NewWorker]
    /\ results = <<>>
    /\ main_pc = "idle"
    /\ main_i = 0
    /\ bench_ret = "none"
    /\ exc = "none"
    /\ published = NoPublished
    /\ exchanges = <<>>
    /\ data_size = 0
    /\ summary = NoSummary
    /\ inflight = {}
    /\ rcvbuf = <<>>
    /\ ex = NoExchange

coreFrame == <<probeFrame, benchParams, wk, results, main_pc, main_i, bench_ret,
               exc, published, exchanges, data_size, summary, inflight,
               rcvbuf, ex>>

\* The list `tests` of run_all_tests, by class: its names in order.
Tests(class) ==
    IF class = "SpeedTest"
    THEN <<"Latency Test", "Throughput Test", "Concurrent Test", "Stress Test">>
    ELSE <<"Latency Test", "Throughput Range Test", "Concurrent Test">>

\* What a call of the phase can do: return a value ("True", "False", "dict"
\* for a dict with entries, "empty" for {}) or raise an Exception ("raised").
\* test_throughput_range returns its dict `results`; a phase whose socket
\* cannot be created, or that divides by a zero total, raises.
PhaseOutcomes(class, name) ==
    CASE name = "Throughput Range Test" -> {"dict", "empty", "raised"}
      [] name = "Throughput Test" -> {"True", "False"}
      [] name = "Latency Test" /\ class = "RelaySpeedTest" -> {"True", "False"}
      [] OTHER -> {"True", "False", "raised"}

\* bool(value)
Truthy(value) == value \in {"True", "dict"}

\* Can sum() add the value to an int?
Summable(value) == value \in {"True", "False"}

\* try: success = test_func(); results[test_name] = success
\* except Exception: results[test_name] = False
Verdict(outcome) == IF outcome = "raised" THEN "False" ELSE outcome

InitSuite ==
    /\ script = "suite"
    /\ CoreIdle
    /\ \E class \in {"SpeedTest", "RelaySpeedTest"} :
          suite = [pc |-> "loop", class |-> class, results |-> <<>>,
                   ran |-> <<>>, passed |-> 0, ret |-> "none"]
    /\ relay_client = NotRunning
    /\ listener = NotRunning
    /\ latency_test = NotRunning
    /\ parser = NotRunning

\* One pass of the loop `for test_name, test_func in tests`.  `ran` keeps what
\* the calls did, for stating properties.
RunPhase ==
    /\ script = "suite" /\ suite.pc = "loop"
    /\ Len(suite.results) < Len(Tests(suite.class))
    /\ LET name == Tests(suite.class)[Len(suite.results) + 1] IN
         \E outcome \in PhaseOutcomes(suite.class, name) :
            suite' = [suite EXCEPT
                        !.results = Append(@, [name |-> name,
                                               success |-> Verdict(outcome)]),
                        !.ran = Append(@, [name |-> name, outcome |-> outcome])]
    /\ UNCHANGED <<coreFrame, relay_client, listener, latency_test, parser>>

\* The number of True values among the verdicts.
RECURSIVE CountTrue(_)
CountTrue(list) ==
    IF list = <<>> THEN 0
    ELSE (IF Head(list).success = "True" THEN 1 ELSE 0) + CountTrue(Tail(list))

\* After the loop: the report is printed, passed = sum(results.values()) is
\* computed and the map is returned.  sum() raises TypeError on a value that
\* is not a number, and nothing catches it.
FinalReport ==
    /\ script = "suite" /\ suite.pc = "loop"
    /\ Len(suite.results) = Len(Tests(suite.class))
    /\ IF \A k \in 1..Len(suite.results) : Summable(suite.results[k].success)
       THEN suite' = [suite EXCEPT !.pc = "done", !.ret = "results",
                                   !.passed = CountTrue(suite.results)]
       ELSE suite' = [suite EXCEPT !.pc = "done", !.ret = "TypeError"]
    /\ UNCHANGED <<coreFrame, relay_client, listener, latency_test, parser>>

NextSuite == RunPhase \/ FinalReport

SpecSuite == InitSuite /\ [][NextSuite]_vars

SuiteDone == script = "suite" /\ suite.pc = "done"

\* The phases whose verdict is success.
Successes(list) == {k \in 1..Len(list) : Truthy(list[k].success)}

\* C34: run_all_tests runs every phase exactly once in the listed order, even
\* when an earlier phase fails or raises, then returns normally a map with one
\* boolean verdict per phase, and the passed count it reports is the number
\* of phases whose verdict is success.
C34_SuiteRunsAllAndReturnsVerdicts ==
    SuiteDone
        => /\ [k \in 1..Len(suite.ran) |-> suite.ran[k].name] = Tests(suite.class)
           /\ suite.ret = "results"
           /\ [k \in 1..Len(suite.results) |-> suite.results[k].name]
                 = Tests(suite.class)
           /\ \A k \in 1..Len(suite.results) :
                 suite.results[k].success \in {"True", "False"}
           /\ suite.passed = Cardinality(Successes(suite.results))

\* run_all_tests of SpeedTest does all of it.
C34_SpeedTestSuite ==
    (SuiteDone /\ suite.class = "SpeedTest")
        => /\ [k \in 1..Len(suite.ran) |-> suite.ran[k].name] = Tests(suite.class)
           /\ suite.ret = "results"
           /\ \A k \in 1..Len(suite.results) :
                 suite.results[k].success \in {"True", "False"}
           /\ suite.passed = Cardinality(Successes(suite.results))

\* Both classes run every phase once and in order, whatever the phases do.
C34_EveryPhaseRunsOnce ==
    SuiteDone
        => [k \in 1..Len(suite.ran) |-> suite.ran[k].name] = Tests(suite.class)

-----------------------------------------------------------------------------
(* SpecConnect: test_relay_communication of test-relay-communication.py up  *)
(* to the start of the listeners: client_a.connect(), then                  *)
(* client_b.connect().  A datagram is taken by what decoding it yields: is   *)
(* it UTF-8, what JSON value is its text, and, of an object, its "type".     *)

JsonKinds == {"object", "array", "string", "number", "null", "invalid"}
TypeValues == {"connected", "Connected", "relay", "error", "absent"}

ConnectReplies ==
    [utf8 : BOOLEAN, json : JsonKinds, type : TypeValues]

\* response.decode(): the text, or UnicodeDecodeError
decode(datagram) ==
    IF datagram.utf8 THEN [raised |-> FALSE, text |-> datagram]
    ELSE [raised |-> TRUE]

\* json.loads(text): the value, or JSONDecodeError
json_loads(t) ==
    IF t.raised \/ t.text.json = "invalid" THEN [raised |-> TRUE]
    ELSE [raised |-> FALSE, value |-> t.text]

\* value.get(key): the entry of a dict, None if it has none; AttributeError
\* on a value that is no dict.
get(v, key) ==
    IF v.raised \/ v.value.json # "object" THEN [raised |-> TRUE]
    ELSE [raised |-> FALSE,
          item |-> IF key \in DOMAIN v.value /\ v.value[key] # "absent"
                   THEN v.value[key] ELSE "None"]

\* Lines 41-46 and 52-54 of connect, from the datagram to the end of the
\* call: the new value of self.connected and what the call returns.  A reply
\* of another type leaves both try blocks and the function ends without a
\* return statement.
AfterReply(connected, datagram) ==
    LET t == get(json_loads(decode(datagram)), "type")
    IN IF t.raised THEN [connected |-> connected, ret |-> "False"]
       ELSE IF t.item = "connected" THEN [connected |-> TRUE, ret |-> "True"]
       ELSE [connected |-> connected, ret |-> "None"]

\* Lines 47-50: except socket.timeout
AfterTimeout_fails == [connected |-> FALSE, ret |-> "False"]
AfterTimeout == [connected |-> TRUE, ret |-> "True"]

\* RelayClient.__init__
NewRelayClient ==
    [sock |-> "None", connected |-> FALSE, ret |-> "none", event |-> "none",
     response |-> <<>>]

RelayIds == {"client_a", "client_b"}

InitConnect ==
    /\ script = "connect"
    /\ CoreIdle
    /\ relay_client = [pc |-> "call", cur |-> "client_a",
                       clients |-> [id \in RelayIds |-> NewRelayClient],
                       test_ret |-> "none"]
    /\ suite = NotRunning
    /\ listener = NotRunning
    /\ latency_test = NotRunning
    /\ parser = NotRunning

connectFrame == <<coreFrame, suite, listener, latency_test, parser>>

\* The client whose connect is running or has just returned.
Cur == relay_client.clients[relay_client.cur]

\* relay_client with the fields of the current client replaced.
WithCur(at, c) ==
    [relay_client EXCEPT !.pc = at, !.clients[relay_client.cur] = c]

\* self.sock = socket.socket(...); settimeout(5.0)
ConnectSocket ==
    /\ script = "connect" /\ relay_client.pc = "call"
    /\ relay_client' = WithCur("send", [Cur EXCEPT !.sock = "open"])
    /\ UNCHANGED connectFrame

\* socket.socket raises: except Exception returns False
ConnectSocketFails ==
    /\ script = "connect" /\ relay_client.pc = "call"
    /\ relay_client' = WithCur("returned", [Cur EXCEPT !.ret = "False",
                                                       !.event = "socket_error"])
    /\ UNCHANGED connectFrame

\* The connect message is sent.
ConnectSendto ==
    /\ script = "connect" /\ relay_client.pc = "send"
    /\ relay_client' = WithCur("recv", Cur)
    /\ UNCHANGED connectFrame

\* sendto raises: except Exception returns False
ConnectSendtoRaises ==
    /\ script = "connect" /\ relay_client.pc = "send"
    /\ relay_client' = WithCur("returned", [Cur EXCEPT !.ret = "False",
                                                       !.event = "sendto_error"])
    /\ UNCHANGED connectFrame

\* recvfrom returns a datagram.
ConnectRecvfrom ==
    /\ script = "connect" /\ relay_client.pc = "recv"
    /\ \E d \in ConnectReplies :
          LET a == AfterReply(Cur.connected, d)
          IN relay_client' =
                WithCur("returned", [Cur EXCEPT !.connected = a.connected,
                                                !.ret = a.ret,
                                                !.event = "reply",
                                                !.response = d])
    /\ UNCHANGED connectFrame

\* recvfrom raises socket.timeout.
ConnectTimeout ==
    /\ script = "connect" /\ relay_client.pc = "recv"
    /\ relay_client' =
          WithCur("returned", [Cur EXCEPT !.connected = AfterTimeout.connected,
                                          !.ret = AfterTimeout.ret,
                                          !.event = "timeout"])
    /\ UNCHANGED connectFrame

\* recvfrom raises another OSError: except Exception returns False
ConnectRecvfromRaises ==
    /\ script = "connect" /\ relay_client.pc = "recv"
    /\ relay_client' = WithCur("returned", [Cur EXCEPT !.ret = "False",
                                                       !.event = "recvfrom_error"])
    /\ UNCHANGED connectFrame

\* disconnect(): if self.sock: ... self.sock.close(); self.connected = False
disconnect(c) ==
    IF c.sock = "None" THEN c
    ELSE [c EXCEPT !.sock = "closed", !.connected = FALSE]

\* Lines 134-142 and 192-195: `if not client.connect(): return False`, with
\* the `finally` clause that disconnects both clients; after the second
\* connect the test goes on to start the listeners.
AfterConnect ==
    /\ script = "connect" /\ relay_client.pc = "returned"
    /\ IF Cur.ret # "True"
       THEN relay_client' =
               [relay_client EXCEPT
                  !.pc = "done", !.test_ret = "False",
                  !.clients = [id \in RelayIds |-> disconnect(@[id])]]
       ELSE IF relay_client.cur = "client_a"
       THEN relay_client' = [relay_client EXCEPT !.pc = "call",
                                                 !.cur = "client_b"]
       ELSE relay_client' = [relay_client EXCEPT !.pc = "listeners"]
    /\ UNCHANGED connectFrame

NextConnect ==
    \/ ConnectSocket
    \/ ConnectSocketFails
    \/ ConnectSendto
    \/ ConnectSendtoRaises
    \/ ConnectRecvfrom
    \/ ConnectTimeout
    \/ ConnectRecvfromRaises
    \/ AfterConnect

SpecConnect == InitConnect /\ [][NextConnect]_vars

\* A call of connect has just returned.
ConnectReturned == script = "connect" /\ relay_client.pc = "returned"

\* The datagram is JSON text for an object whose "type" is "connected".
IsConnectedReply(d) == d.utf8 /\ d.json = "object" /\ d.type = "connected"

\* C35: connect leaves connected = True and returns True when a reply of type
\* "connected" arrives or when no reply arrives within the timeout; in every
\* other case it leaves connected = False and returns a falsy result; after
\* any call connected is True exactly when the call returned True.
C35_ConnectOutcome ==
    ConnectReturned
        => /\ IF \/ Cur.event = "timeout"
                 \/ Cur.event = "reply" /\ IsConnectedReply(Cur.response)
              THEN Cur.connected /\ Cur.ret = "True"
              ELSE ~Cur.connected /\ Cur.ret \in {"False", "None"}
           /\ Cur.connected <=> (Cur.ret = "True")

\* The second client's connect got a well-formed reply of another type and
\* ended without a return value, after the first client had connected on a
\* timeout.
C35_Witness ==
    /\ ConnectReturned
    /\ relay_client.cur = "client_b"
    /\ Cur.event = "reply" /\ Cur.response.json = "object"
    /\ Cur.ret = "None" /\ ~Cur.connected
    /\ relay_client.clients["client_a"].event = "timeout"
    /\ relay_client.clients["client_a"].connected

-----------------------------------------------------------------------------
(* SpecListen: one listener thread, P2PClient.listen of                     *)
(* test-p2p-connection.py or RelayClient.listen of                          *)
(* test-relay-communication.py, the datagrams that arrive on its socket and  *)
(* the end of its listening period (disconnect() of the P2P client, the      *)
(* duration of the relay client).  The listener is called "me".             *)

\* Most datagrams that arrive on the socket.
MaxArrivals == 3

ListenDatagrams ==
    {[utf8 |-> TRUE, json |-> "object", type |-> "relay", to |-> "me"],
     [utf8 |-> TRUE, json |-> "object", type |-> "relay", to |-> "broadcast"],
     [utf8 |-> TRUE, json |-> "object", type |-> "connected", to |-> "other"],
     [utf8 |-> TRUE, json |-> "array", type |-> "absent", to |-> "absent"],
     [utf8 |-> TRUE, json |-> "invalid", type |-> "absent", to |-> "absent"],
     [utf8 |-> FALSE, json |-> "invalid", type |-> "absent", to |-> "absent"]}

InitListen ==
    /\ script = "listen"
    /\ CoreIdle
    /\ \E class \in {"P2PClient", "RelayClient"} :
          listener = [pc |-> "loop", class |-> class, period |-> "open",
                      rcvbuf |-> <<>>, received |-> <<>>, log |-> <<>>,
                      broke |-> FALSE]
    /\ suite = NotRunning
    /\ relay_client = NotRunning
    /\ latency_test = NotRunning
    /\ parser = NotRunning

listenFrame == <<coreFrame, suite, relay_client, latency_test, parser>>

\* A datagram arrives on the socket while the period lasts and is queued
\* there; `log` keeps every datagram that arrived, in order.
DatagramArrives(d) ==
    /\ script = "listen" /\ listener.period = "open"
    /\ Len(listener.log) < MaxArrivals
    /\ listener' = [listener EXCEPT
                       !.rcvbuf = Append(@, Len(listener.log) + 1),
                       !.log = Append(@, d)]
    /\ UNCHANGED listenFrame

\* What the body of the loop does with a datagram: "append", "skip", or
\* "break" when decoding it raises (`except Exception: ... break`).
\* P2PClient.listen keeps the packets whose "to" is its id or "broadcast";
\* RelayClient.listen keeps the messages whose "type" is "relay".
Handle(class, d) ==
    LET v == json_loads(decode(d))
        t == get(v, IF class = "P2PClient" THEN "to" ELSE "type")
    IN IF t.raised THEN "break"
       ELSE IF class = "P2PClient" /\ t.item \in {"me", "broadcast"} THEN "append"
       ELSE IF class = "RelayClient" /\ t.item = "relay" THEN "append"
       ELSE "skip"

\* recvfrom returns the oldest queued datagram and the body handles it.  (A
\* recvfrom that times out changes nothing: `continue`.)
ListenRecvfrom ==
    /\ script = "listen" /\ listener.pc = "loop" /\ listener.period = "open"
    /\ listener.rcvbuf # <<>>
    /\ LET n == Head(listener.rcvbuf)
           h == Handle(listener.class, listener.log[n])
       IN listener' = [listener EXCEPT
                         !.rcvbuf = Tail(@),
                         !.received = IF h = "append" THEN Append(@, n) ELSE @,
                         !.pc = IF h = "break" THEN "ended" ELSE @,
                         !.broke = (h = "break")]
    /\ UNCHANGED listenFrame

\* The period ends: disconnect() clears self.running and closes the socket
\* of a P2P client; the duration of a relay client has passed.
PeriodEnds ==
    /\ script = "listen" /\ listener.period = "open"
    /\ listener' = [listener EXCEPT !.period = "over"]
    /\ UNCHANGED listenFrame

\* The loop condition fails, or recvfrom raises on the closed socket.
ListenExit ==
    /\ script = "listen" /\ listener.pc = "loop" /\ listener.period = "over"
    /\ listener' = [listener EXCEPT !.pc = "ended"]
    /\ UNCHANGED listenFrame

NextListen ==
    \/ \E d \in ListenDatagrams : DatagramArrives(d)
    \/ ListenRecvfrom
    \/ PeriodEnds
    \/ ListenExit

SpecListen == InitListen /\ [][NextListen]_vars

\* The listener thread is scheduled, and recvfrom returns once a datagram is
\* queued; how long the period lasts is up to the caller.
SpecListenLive == SpecListen /\ WF_vars(ListenRecvfrom \/ ListenExit)

\* The k-th datagram has arrived and is a well-formed message for me, or a
\* broadcast.
ForMe(k) ==
    /\ script = "listen"
    /\ k <= Len(listener.log)
    /\ listener.log[k].utf8 /\ listener.log[k].json = "object"
    /\ listener.log[k].type = "relay"
    /\ listener.log[k].to \in {"me", "broadcast"}

Appended(k) == \E j \in 1..Len(listener.received) : listener.received[j] = k

\* C36: while the listening period has not ended, every well-formed datagram
\* for the client, or broadcast, that arrives on its socket is eventually
\* appended to its list of received messages, even when a malformed datagram
\* arrived earlier.
C36_EveryMessageForMeAppended ==
    \A k \in 1..MaxArrivals :
       ForMe(k) ~> (Appended(k) \/ listener.period = "over")

\* It is, unless the listener has been ended by a datagram it could not
\* decode.
C36_AppendedUnlessListenerBroke ==
    \A k \in 1..MaxArrivals :
       ForMe(k) ~> (Appended(k) \/ listener.period = "over" \/ listener.broke)

-----------------------------------------------------------------------------
(* SpecPing: test_latency of test-p2p-connection.py: client A sends the      *)
(* pings, the listener of client B appends the messages that reach it.  The  *)
(* pings are numbered 1, 2, ... as in their text; a message is the number of *)
(* its ping.                                                                *)

\* Pings followed (the code sends 10).
MaxPings == 3

InitPing ==
    /\ script = "ping"
    /\ CoreIdle
    /\ latency_test = [pc |-> "send", i |-> 0, received_messages |-> <<>>,
                       latencies |-> {}, inflight |-> {}, ontime |-> {}]
    /\ suite = NotRunning
    /\ relay_client = NotRunning
    /\ listener = NotRunning
    /\ parser = NotRunning

pingFrame == <<coreFrame, suite, relay_client, listener, parser>>

\* client_a.send_message(f"Ping {i+1}", "Latency-B"); timeout = time.time() + 5
PingSend ==
    /\ script = "ping" /\ latency_test.pc = "send" /\ latency_test.i < MaxPings
    /\ latency_test' = [latency_test EXCEPT
                           !.pc = "wait",
                           !.inflight = @ \cup {latency_test.i + 1}]
    /\ UNCHANGED pingFrame

\* Message m reaches client B and its listener appends it.  `ontime` keeps
\* the pings delivered while the test was waiting for them.
PingDelivered(m) ==
    /\ script = "ping" /\ m \in latency_test.inflight
    /\ latency_test.pc # "done"
    /\ latency_test' = [latency_test EXCEPT
                           !.inflight = @ \ {m},
                           !.received_messages = Append(@, m),
                           !.ontime = IF latency_test.pc = "wait"
                                         /\ m = latency_test.i + 1
                                      THEN @ \cup {m} ELSE @]
    /\ UNCHANGED pingFrame

\* Message m is lost on the way.
PingLost(m) ==
    /\ script = "ping" /\ m \in latency_test.inflight
    /\ latency_test' = [latency_test EXCEPT !.inflight = @ \ {m}]
    /\ UNCHANGED pingFrame

\* if len(client_b.received_messages) > i
Answered(list, k) == Len(list) > k

\* The polling loop finds the condition true: a latency is recorded for this
\* ping and the loop is left.  (A poll that finds it false sleeps 0.1 s and
\* changes nothing.)
PollHit ==
    /\ script = "ping" /\ latency_test.pc = "wait"
    /\ Answered(latency_test.received_messages, latency_test.i)
    /\ latency_test' = [latency_test EXCEPT
                           !.pc = "send", !.i = @ + 1,
                           !.latencies = @ \cup {latency_test.i + 1}]
    /\ UNCHANGED pingFrame

\* The 5 seconds pass with the condition false at every poll: the `else` of
\* the while loop prints the timeout.
PollTimeout ==
    /\ script = "ping" /\ latency_test.pc = "wait"
    /\ ~Answered(latency_test.received_messages, latency_test.i)
    /\ latency_test' = [latency_test EXCEPT !.pc = "send", !.i = @ + 1]
    /\ UNCHANGED pingFrame

\* After the last ping: the statistics, and both clients disconnect.
PingExit ==
    /\ script = "ping" /\ latency_test.pc = "send" /\ latency_test.i = MaxPings
    /\ latency_test' = [latency_test EXCEPT !.pc = "done"]
    /\ UNCHANGED pingFrame

NextPing ==
    \/ PingSend
    \/ \E m \in 1..MaxPings : PingDelivered(m) \/ PingLost(m)
    \/ PollHit
    \/ PollTimeout
    \/ PingExit

SpecPing == InitPing /\ [][NextPing]_vars

\* The wait for ping m is over.
Waited(m) == script = "ping" /\ latency_test.i >= m

\* C37: if the message of ping i is delivered to client B within the 5 s the
\* test waits for it, a latency is recorded for ping i, also when an earlier
\* ping was lost or delivered late.
C37_DeliveredPingIsSampled ==
    \A m \in 1..MaxPings :
       (Waited(m) /\ m \in latency_test.ontime) => m \in latency_test.latencies

\* It is recorded when every earlier ping has been delivered by then.
C37_SampledWhenNoneMissing ==
    \A m \in 1..MaxPings :
       (/\ Waited(m) /\ m \in latency_test.ontime
        /\ \A j \in 1..(m - 1) :
              \E k \in 1..Len(latency_test.received_messages) :
                 /\ latency_test.received_messages[k] = j
                 /\ \E h \in k..Len(latency_test.received_messages) :
                       latency_test.received_messages[h] = m)
          => m \in latency_test.latencies

-----------------------------------------------------------------------------
(* SpecParse: parse_stun_response of test-stun-server.py, one step per pass
   of its attribute loop *)

\* A datagram whose declared length is no multiple of four: a 20-byte header,
\* one attribute of length zero and two bytes more, msg_length = 6.  The
\* second pass of the loop finds less than an attribute header left.
OddTail == PackHeader(BindingSuccess, 6, TidA) \o <<0, 0, 0, 0>>
           \o <<0, 32, 0, 0>> \o <<7, 7>>

InitParse ==
    /\ script = "parse"
    /\ pc = "input"
    /\ \/ \E shape \in WireShapes :
             \E c \in 0..Len(WireFull(shape)) :
                /\ wire = WithCut(shape, c)
                /\ response = Slice(WireFull(shape), 0, c)
       \/ /\ wire = NoWire
          /\ response = OddTail
    /\ parsed = Unparsed
    /\ ProbeIdle
    /\ bench = "none"
    /\ num_clients = 0
    /\ duration = 0
    /\ iterations = 0
    /\ wk = [c \in ClientIds |-> NewWorker]
    /\ results = <<>>
    /\ main_pc = "idle"
    /\ main_i = 0
    /\ bench_ret = "none"
    /\ exc = "none"
    /\ published = NoPublished
    /\ exchanges = <<>>
    /\ data_size = 0
    /\ summary = NoSummary
    /\ inflight = {}
    /\ rcvbuf = <<>>
    /\ ex = NoExchange
    /\ suite = NotRunning
    /\ relay_client = NotRunning
    /\ listener = NotRunning
    /\ latency_test = NotRunning
    /\ parser = [pc |-> "start", msg_length |-> 0, offset |-> 0,
                 attributes |-> <<>>, passes |-> 0, has |-> FALSE]

parseFrame == <<coreFrame, suite, relay_client, listener, latency_test>>

\* lines 26-43: the length check, the header, the test for attributes.
ParseHeader ==
    /\ script = "parse"
    /\ parser.pc = "start"
    /\ parser' =
          IF TooShort(response)
          THEN [parser EXCEPT !.pc = "done"]
          ELSE LET msg_length == Unpack16(Slice(response, 2, 4))
               IN IF AttrsPresent(response, msg_length)
                  THEN [parser EXCEPT !.pc = "loop", !.msg_length = msg_length,
                                      !.offset = AttrStart, !.has = TRUE]
                  ELSE [parser EXCEPT !.pc = "done", !.msg_length = msg_length]
    /\ UNCHANGED parseFrame

\* offset += 4 + attr_length
Advance_half_header(offset, attr_length) == offset + 2 + attr_length
Advance(offset, attr_length) == offset + 4 + attr_length

\* lines 44-55: a pass that reads an attribute.
LoopPass ==
    /\ script = "parse"
    /\ parser.pc = "loop"
    /\ parser.offset < AttrStart + parser.msg_length
    /\ ~(parser.offset + 4 > Len(response))
    /\ LET read == ReadAttr(response, parser.offset)
       IN parser' = [parser EXCEPT
                        !.attributes = @ \o read,
                        !.offset = Advance(@, read[1].length),
                        !.passes = @ + 1]
    /\ UNCHANGED parseFrame

\* lines 44-46: a pass that finds no room for an attribute header and breaks.
LoopBreak ==
    /\ script = "parse"
    /\ parser.pc = "loop"
    /\ parser.offset < AttrStart + parser.msg_length
    /\ parser.offset + 4 > Len(response)
    /\ parser' = [parser EXCEPT !.pc = "done", !.passes = @ + 1]
    /\ UNCHANGED parseFrame

\* line 44 false, line 56: the loop is left.
LoopEnd ==
    /\ script = "parse"
    /\ parser.pc = "loop"
    /\ ~(parser.offset < AttrStart + parser.msg_length)
    /\ parser' = [parser EXCEPT !.pc = "done"]
    /\ UNCHANGED parseFrame

NextParse == ParseHeader \/ LoopPass \/ LoopBreak \/ LoopEnd

SpecParse == InitParse /\ [][NextParse]_vars

\* A call, once made, runs on: the function has no wait in it.
SpecParseLive == SpecParse /\ WF_vars(NextParse)

ParseDone == script = "parse" /\ parser.pc = "done"

\* C38: parse_stun_response terminates: every pass of the attribute loop that
\* reads an attribute moves offset forward by at least 4, the passes begun,
\* the breaking one included, never number more than ceil(msg_length / 4),
\* and the call reaches its return.
C38_AttributeLoopTerminates ==
    /\ [](script = "parse" => (parser.passes - 1) * 4 < parser.msg_length
                              \/ parser.passes = 0)
    /\ [][LoopPass => parser'.offset >= parser.offset + 4]_vars
    /\ <>ParseDone

\* Two attributes of length zero under a declared length of 8: the bound of
\* ceil(8 / 4) passes is met.
C38_Witness ==
    /\ ParseDone
    /\ parser.passes = 2
    /\ parser.msg_length = 8
    /\ Len(parser.attributes) = 2

\* The pass that breaks counts against the bound too.
C38_BreakWitness ==
    /\ ParseDone
    /\ parser.passes = 2
    /\ parser.msg_length = 6
    /\ Len(parser.attributes) = 1

\* The steps leave the attribute list parse_stun_response returns.
C38_StepsAgreeWithDecoder ==
    ParseDone /\ parser.has
       => parser.attributes = parse_stun_response(response).result.attributes

====
